---- MODULE Spec2Model ----
(***************************************************************************)
(* A model of howdy: the journal record codec (src/src/daily_score.rs),   *)
(* the mood report engine (src/src/mood_report.rs) and the reading of the  *)
(* journal file (src/src/journal.rs).                                      *)
(*                                                                         *)
(* Text is modelled as a sequence of one-character strings, so that        *)
(* splitting, trimming, sorting and number formatting are computed the way *)
(* the code computes them.  A point in time is a record [ts, off]: the     *)
(* unix timestamp in seconds and the fixed UTC offset in seconds, which is *)
(* what a chrono DateTime<FixedOffset> holds at whole-second precision.    *)
(***************************************************************************)
EXTENDS Integers, Sequences, FiniteSets, TLC

VARIABLES
    origin,        \* codec: "entry" (a constructed DailyScore) or "text" (a line)
    cphase,        \* codec: how far the encode/decode pipeline has run
    entry,         \* codec: the constructed DailyScore, or NoEntry
    line,          \* codec: the line being decoded (given, or to_s(entry))
    decoded,       \* codec: DailyScore::parse(line), or NoResult
    line2,         \* codec: to_s of the decoded entry
    decoded2,      \* codec: DailyScore::parse(line2), or NoResult
    daily_scores,  \* report: MoodReport.daily_scores
    tags,          \* report: MoodReport.tags, the filter set
    now,           \* report: the instant Local::now() returns when a report starts
    kind,          \* report: which aggregate ran last ("none" before the first)
    ticks,         \* report: seconds the clock advanced before each later Local::now()
    panicked,      \* report: TRUE when the aggregate panicked and returned nothing
    moving,        \* report: starts, ends and frame size a moving report is asked with
    journal,       \* journal: the journal file, File(lines, tail), Directory or NoFile
    jphase,        \* journal: "closed", "reading" or "done"
    examined,      \* journal: how many lines the reader has taken from the file
    position,      \* journal: how many bytes of the file the reader has taken
    opened_after,  \* journal: how many runs of add had returned when the reader opened
    grants,        \* journal: how many bytes the coming calls of write(2) take at most
    records,       \* journal: the Vec records of the read in progress
    read_result,   \* journal: what the read returned, or NoResult
    added,         \* journal: the AddCommand runs so far, each with its outcome
    chrono,        \* the build of the chrono crate the program is linked with
    report         \* report: the value the aggregate returned

vars == <<origin, cphase, entry, line, decoded, line2, decoded2,
          daily_scores, tags, now, kind, ticks, panicked, moving, report,
          journal, jphase, examined, position, opened_after, grants, records,
          read_result, added, chrono>>

codec_vars == <<origin, cphase, entry, line, decoded, line2, decoded2>>
\* what no action changes
build_vars == <<chrono>>
report_vars == <<daily_scores, tags, now, kind, ticks, panicked, moving, report>>
journal_vars == <<journal, jphase, examined, position, opened_after, grants, records,
                  read_result, added>>

-----------------------------------------------------------------------------
(* Constants of the program.                                               *)

\* lib.rs: const JOURNAL_SEPARATOR: char = '|'
JOURNAL_SEPARATOR == "|"
\* crate::TAGS_SEPARATOR, used by tags_string; parse splits on ','
TAGS_SEPARATOR == ","
HOUR_SECONDS == 3600
DAY_SECONDS == HOUR_SECONDS * 24
WEEK_SECONDS == DAY_SECONDS * 7
\* i8
I8_MIN == -128
I8_MAX == 127
\* the range of i32, the type of the sums
I32_MAX == 2147483647
I32_MIN == -I32_MAX - 1

-----------------------------------------------------------------------------
(* Text helpers.                                                           *)

DIGITS == <<"0", "1", "2", "3", "4", "5", "6", "7", "8", "9">>

IsDigit(c) == \E i \in 1..10 : DIGITS[i] = c

DigitValue(c) == (CHOOSE i \in 1..10 : DIGITS[i] = c) - 1

\* The printable characters of ASCII in the order of their codes, 32 to 126;
\* the grave accent, which a TLA+ string cannot hold, is named by its code.
ASCII_PRINTABLE ==
    <<
      " ", "!", "\"", "#", "$", "%", "&", "'", "(", ")", "*", "+",
      ",", "-", ".", "/", "0", "1", "2", "3", "4", "5", "6", "7",
      "8", "9", ":", ";", "<", "=", ">", "?", "@", "A", "B", "C",
      "D", "E", "F", "G", "H", "I", "J", "K", "L", "M", "N", "O",
      "P", "Q", "R", "S", "T", "U", "V", "W", "X", "Y", "Z", "[",
      "\\", "]", "^", "_", "U+0060", "a", "b", "c", "d", "e", "f", "g",
      "h", "i", "j", "k", "l", "m", "n", "o", "p", "q", "r", "s",
      "t", "u", "v", "w", "x", "y", "z", "{", "|", "}", "~"
    >>

\* Characters a TLA+ string cannot write, each named by its code point and
\* paired with it: the White_Space characters outside of ASCII's escapes.
NAMED_CHARS ==
    {
      <<"U+000B", 11>>, <<"U+0085", 133>>, <<"U+00A0", 160>>,
      <<"U+1680", 5760>>, <<"U+2000", 8192>>, <<"U+2001", 8193>>,
      <<"U+2002", 8194>>, <<"U+2003", 8195>>, <<"U+2004", 8196>>,
      <<"U+2005", 8197>>, <<"U+2006", 8198>>, <<"U+2007", 8199>>,
      <<"U+2008", 8200>>, <<"U+2009", 8201>>, <<"U+200A", 8202>>,
      <<"U+2028", 8232>>, <<"U+2029", 8233>>, <<"U+202F", 8239>>,
      <<"U+205F", 8287>>, <<"U+3000", 12288>>
    }

\* U+2212 MINUS SIGN, named by its code point
MINUS_SIGN == "U+2212"

\* The code point of a character; str compares by the bytes of UTF-8, which
\* is the order of the code points.
Ord(c) ==
    CASE c = "\t" -> 9
      [] c = "\n" -> 10
      [] c = "\f" -> 12
      [] c = "\r" -> 13
      [] \E i \in 1..Len(ASCII_PRINTABLE) : ASCII_PRINTABLE[i] = c ->
             31 + (CHOOSE i \in 1..Len(ASCII_PRINTABLE) : ASCII_PRINTABLE[i] = c)
      [] \E p \in NAMED_CHARS : p[1] = c ->
             (CHOOSE p \in NAMED_CHARS : p[1] = c)[2]
      [] c = MINUS_SIGN -> 8722

\* char::is_whitespace: the characters with the Unicode property White_Space
IsWhitespace(c) ==
    \/ c \in {"\t", "\n", "\f", "\r", " "}
    \/ \E p \in NAMED_CHARS : p[1] = c

\* str::trim_start
RECURSIVE TrimStart(_)
TrimStart(s) ==
    IF s # <<>> /\ IsWhitespace(Head(s)) THEN TrimStart(Tail(s)) ELSE s

\* str::trim_end
RECURSIVE TrimEnd(_)
TrimEnd(s) ==
    IF s # <<>> /\ IsWhitespace(s[Len(s)])
    THEN TrimEnd(SubSeq(s, 1, Len(s) - 1))
    ELSE s

\* str::trim
Trim(s) == TrimEnd(TrimStart(s))

\* Does pat occur in s at position i?
MatchAt(s, pat, i) ==
    /\ i >= 1
    /\ i + Len(pat) - 1 <= Len(s)
    /\ \A k \in 1..Len(pat) : s[i + k - 1] = pat[k]

\* The first position of pat in s, 0 when there is none.
Find(s, pat) ==
    IF \E i \in 1..Len(s) : MatchAt(s, pat, i)
    THEN CHOOSE i \in 1..Len(s) :
            /\ MatchAt(s, pat, i)
            /\ \A j \in 1..(i - 1) : ~MatchAt(s, pat, j)
    ELSE 0

\* str::splitn(n, pat): at most n pieces, cut at the first n-1 occurrences.
\* A splitter that yields no piece at all for an empty text (and drops an
\* empty final piece), unlike str::splitn, which always yields a first piece.
RECURSIVE SplitN_dropping_empty(_, _, _)
SplitN_dropping_empty(n, s, pat) ==
    IF s = <<>>
    THEN <<>>
    ELSE IF n <= 1 \/ Find(s, pat) = 0
         THEN <<s>>
         ELSE <<SubSeq(s, 1, Find(s, pat) - 1)>>
              \o SplitN_dropping_empty(n - 1,
                     SubSeq(s, Find(s, pat) + Len(pat), Len(s)), pat)

RECURSIVE SplitN(_, _, _)
SplitN(n, s, pat) ==
    IF n <= 1 \/ Find(s, pat) = 0
    THEN <<s>>
    ELSE <<SubSeq(s, 1, Find(s, pat) - 1)>>
         \o SplitN(n - 1, SubSeq(s, Find(s, pat) + Len(pat), Len(s)), pat)

\* str::split(pat): every piece.
RECURSIVE Split(_, _)
Split(s, pat) ==
    IF Find(s, pat) = 0
    THEN <<s>>
    ELSE <<SubSeq(s, 1, Find(s, pat) - 1)>>
         \o Split(SubSeq(s, Find(s, pat) + Len(pat), Len(s)), pat)

\* Ord for str: lexicographic on the bytes.
RECURSIVE StrLess(_, _)
StrLess(a, b) ==
    IF a = <<>> THEN b # <<>>
    ELSE IF b = <<>> THEN FALSE
    ELSE IF Head(a) = Head(b) THEN StrLess(Tail(a), Tail(b))
    ELSE Ord(Head(a)) < Ord(Head(b))

RECURSIVE Insert(_, _)
Insert(x, sorted) ==
    IF sorted = <<>> THEN <<x>>
    ELSE IF StrLess(x, Head(sorted)) THEN <<x>> \o sorted
    ELSE <<Head(sorted)>> \o Insert(x, Tail(sorted))

\* slice::sort_unstable on a vector of &str
RECURSIVE SortStr(_)
SortStr(v) == IF v = <<>> THEN <<>> ELSE Insert(Head(v), SortStr(Tail(v)))

\* [&str]::join(sep)
RECURSIVE Join(_, _)
Join(v, sep) ==
    IF v = <<>> THEN <<>>
    ELSE IF Len(v) = 1 THEN v[1]
    ELSE v[1] \o sep \o Join(Tail(v), sep)

\* The decimal digits of n >= 0, without leading zeros.
RECURSIVE NatToStr(_)
NatToStr(n) ==
    IF n < 10 THEN <<DIGITS[n + 1]>>
    ELSE NatToStr(n \div 10) \o <<DIGITS[(n % 10) + 1]>>

\* Display for an integer: "{}"
IntToStr(n) == IF n < 0 THEN <<"-">> \o NatToStr(-n) ELSE NatToStr(n)

\* n >= 0 in exactly w digits, zero padded ("%m", "%d", "%H", ...; "%Y" with w = 4).
RECURSIVE Pad(_, _)
Pad(n, w) ==
    IF w = 0 THEN <<>> ELSE Pad(n \div 10, w - 1) \o <<DIGITS[(n % 10) + 1]>>

AllDigits(s) == \A i \in 1..Len(s) : IsDigit(s[i])

\* The value of a digit string, saturated above lim so that the check of the
\* range never computes a number wider than the machine word.
RECURSIVE DigitsValue(_, _, _)
DigitsValue(s, acc, lim) ==
    IF s = <<>> THEN acc
    ELSE IF acc > lim THEN acc
    ELSE DigitsValue(Tail(s), acc * 10 + DigitValue(Head(s)), lim)

-----------------------------------------------------------------------------
(* Calendar: what chrono's NaiveDate computes (proleptic Gregorian).       *)

\* Days from 1970-01-01 to the civil date y-m-d.
DaysFromCivil(y, m, d) ==
    LET yy == IF m <= 2 THEN y - 1 ELSE y
        era == yy \div 400
        yoe == yy - era * 400
        mp == IF m > 2 THEN m - 3 ELSE m + 9
        doy == (153 * mp + 2) \div 5 + d - 1
        doe == yoe * 365 + yoe \div 4 - yoe \div 100 + doy
    IN era * 146097 + doe - 719468

\* The civil date [y, m, d] of a day number.
CivilFromDays(z) ==
    LET zz == z + 719468
        era == zz \div 146097
        doe == zz - era * 146097
        yoe == (doe - doe \div 1460 + doe \div 36524 - doe \div 146096) \div 365
        doy == doe - (365 * yoe + yoe \div 4 - yoe \div 100)
        mp == (5 * doy + 2) \div 153
        dd == doy - (153 * mp + 2) \div 5 + 1
        mm == IF mp < 10 THEN mp + 3 ELSE mp - 9
        yy == yoe + era * 400 + (IF mm <= 2 THEN 1 ELSE 0)
    IN [y |-> yy, m |-> mm, d |-> dd]

DaysInMonth(y, m) ==
    IF m = 12 THEN 31 ELSE DaysFromCivil(y, m + 1, 1) - DaysFromCivil(y, m, 1)

-----------------------------------------------------------------------------
(* DateTime<FixedOffset>: [ts, off, ns].                                   *)
(* ts is the unix timestamp, off the UTC offset in seconds, ns the         *)
(* nanoseconds of the second; chrono holds a leap second as the second 59  *)
(* with 1,000,000,000 nanoseconds or more.                                 *)

LEAP_NANOS == 1000000000

\* The instant with local wall-clock y-m-d h:mi:s at UTC offset off (seconds).
\* The timestamp is an i64 in the code; the model's integers hold those of
\* the years 1902 to 2037, where all its instants lie.
DT(y, m, d, h, mi, s, off) ==
    [ts |-> DaysFromCivil(y, m, d) * DAY_SECONDS + h * HOUR_SECONDS + mi * 60 + s - off,
     off |-> off,
     ns |-> 0]

\* DateTime::with_nanosecond
WithNanos(dt, ns) == [dt EXCEPT !.ns = ns]

\* DateTime::naive_local, in seconds
LocalSecs(dt) == dt.ts + dt.off

\* DateTime::date(): the calendar day on the wall clock of the value's own
\* offset, as a day number.  Date<Tz> compares by this day alone.
DateOf(dt) == LocalSecs(dt) \div DAY_SECONDS

\* DateTime::with_timezone: the same instant on another offset's wall clock.
WithOffset(dt, off) == [dt EXCEPT !.off = off]

\* DateTime - Duration::days(n) and Duration::seconds(n)
MinusDays(dt, n) == [dt EXCEPT !.ts = dt.ts - n * DAY_SECONDS]
PlusSecs(dt, n) == [dt EXCEPT !.ts = dt.ts + n]

\* Date::and_hms_nano(0, 0, 0, 0): midnight of the day number on offset off.
Midnight(day, off) == [ts |-> day * DAY_SECONDS - off, off |-> off, ns |-> 0]

\* DateTime comparison is by instant: the seconds, then the nanoseconds.
Before(a, b) == a.ts < b.ts \/ (a.ts = b.ts /\ a.ns < b.ns)

\* The builds of chrono 0.4 the program may be linked with; no version is
\* pinned.  The later ones read U+2212 MINUS SIGN as the sign of "%z", the
\* later ones have one year less at each end of NaiveDate, and the later
\* ones write an offset that is not whole minutes rounded to the nearest
\* minute where the earlier ones cut its seconds off.
CHRONO_BUILDS == [minus_sign : BOOLEAN, narrow_years : BOOLEAN, round_offset : BOOLEAN]

\* The build of chrono 0.4.44.
LATEST_BUILD == [minus_sign |-> TRUE, narrow_years |-> TRUE, round_offset |-> TRUE]

\* The builds as a read tells them apart: it writes no offset.
READER_BUILDS == {build \in CHRONO_BUILDS : build.round_offset}

\* "%z": the sign and HHMM of the offset, its seconds rounded to the
\* nearest minute or cut off.
FormatOffset(off, build) ==
    LET a == IF off < 0 THEN -off ELSE off
        minutes == IF build.round_offset THEN (a + 30) \div 60 ELSE a \div 60
    IN <<IF off < 0 THEN "-" ELSE "+">> \o Pad(minutes \div 60, 2)
         \o Pad(minutes % 60, 2)

\* "%Y": four digits for the years 0 to 9999, and a sign with at least
\* four digits for the others.
FormatYear(y) ==
    IF y >= 0 /\ y < 10000 THEN Pad(y, 4)
    ELSE LET a == IF y < 0 THEN -y ELSE y
         IN <<IF y < 0 THEN "-" ELSE "+">>
            \o (IF a < 10000 THEN Pad(a, 4) ELSE NatToStr(a))

\* datetime.format(DATE_FORMAT), DATE_FORMAT = "%Y-%m-%d %H:%M:%S %z": the
\* fraction of the second is not written, a leap second is written as 60.
FormatDateTime(dt, build) ==
    LET c == CivilFromDays(DateOf(dt))
        t == LocalSecs(dt) % DAY_SECONDS
    IN FormatYear(c.y) \o <<"-">> \o Pad(c.m, 2) \o <<"-">> \o Pad(c.d, 2) \o <<" ">>
       \o Pad(t \div HOUR_SECONDS, 2) \o <<":">> \o Pad((t \div 60) % 60, 2)
       \o <<":">> \o Pad((t % 60) + (dt.ns \div LEAP_NANOS), 2)
       \o <<" ">> \o FormatOffset(dt.off, build)

\* The years of NaiveDate.
MIN_YEAR(build) == IF build.narrow_years THEN -262143 ELSE -262144
MAX_YEAR(build) == IF build.narrow_years THEN 262142 ELSE 262143

\* How many of the first max characters of s are digits in a row.
RECURSIVE DigitRun(_, _)
DigitRun(s, max) ==
    IF max = 0 \/ s = <<>> \/ ~IsDigit(Head(s)) THEN 0
    ELSE 1 + DigitRun(Tail(s), max - 1)

\* chrono's scan::number(s, min, max): the value of the min to max digits
\* s begins with and the rest of s.  A value past a hundredth of i32::MAX
\* is kept as some value past it: no field of DATE_FORMAT admits it.
scan_number(s, min, max) ==
    LET Taking(c) ==
            IF Len(s) < min \/ c < min
            THEN [ok |-> FALSE]
            ELSE [ok |-> TRUE,
                  val |-> DigitsValue(SubSeq(s, 1, c), 0, I32_MAX \div 100),
                  rest |-> SubSeq(s, c + 1, Len(s))]
    IN Taking(DigitRun(s, max))

\* The state of chrono's format::parse before the first item: the text left
\* to read and the fields of Parsed that DATE_FORMAT sets.
ScanStart(s) ==
    [ok |-> TRUE, rest |-> s, year |-> 0, month |-> 0, day |-> 0,
     hour |-> 0, minute |-> 0, second |-> 0, offset |-> 0]

ScanFail(st) == [st EXCEPT !.ok = FALSE]

\* Item::Numeric: whitespace is skipped, then 1 to width digits are read; a
\* year may carry a sign, and then any number of digits.
ScanNumeric(st, field, width, signed) ==
    LET Explicit(s) == signed /\ s # <<>> /\ s[1] \in {"+", "-"}
        Number(s, explicit) ==
            IF explicit
            THEN scan_number(Tail(s), 1, Len(s))
            ELSE scan_number(s, 1, width)
        Store(n, negative) ==
            IF ~n.ok THEN ScanFail(st)
            ELSE [st EXCEPT !.rest = n.rest,
                            ![field] = IF negative THEN -n.val ELSE n.val]
        Read(s) == Store(Number(s, Explicit(s)), Explicit(s) /\ s[1] = "-")
    IN IF ~st.ok THEN st ELSE Read(TrimStart(st.rest))

\* Item::Literal: the text goes on with the character c.
ScanLiteral(st, c) ==
    IF ~st.ok THEN st
    ELSE IF st.rest = <<>> \/ Head(st.rest) # c THEN ScanFail(st)
    ELSE [st EXCEPT !.rest = Tail(st.rest)]

\* Item::Space: any whitespace, none included, is skipped.
ScanSpace(st) ==
    IF ~st.ok THEN st ELSE [st EXCEPT !.rest = TrimStart(st.rest)]

\* scan::colon_or_space: colons and whitespace are skipped.
RECURSIVE colon_or_space(_)
colon_or_space(s) ==
    IF s # <<>> /\ (Head(s) = ":" \/ IsWhitespace(Head(s)))
    THEN colon_or_space(Tail(s))
    ELSE s

\* Item::Fixed(TimezoneOffset), "%z": whitespace is skipped, then a sign
\* ("+", "-", and U+2212 in the builds that read it), two digits of hours,
\* colons or whitespace, two digits of minutes below 60.
ScanOffset(st, build) ==
    LET signs == IF build.minus_sign THEN {"+", "-", MINUS_SIGN} ELSE {"+", "-"}
        Store(s, minutes, seconds) ==
            [st EXCEPT !.rest = SubSeq(minutes, 3, Len(minutes)),
                       !.offset = IF s[1] = "+" THEN seconds ELSE -seconds]
        Minutes(s, minutes) ==
            IF Len(minutes) < 2 \/ ~IsDigit(minutes[1]) \/ ~IsDigit(minutes[2])
            THEN ScanFail(st)
            ELSE IF DigitValue(minutes[1]) > 5 THEN ScanFail(st)
            ELSE Store(s, minutes,
                       (DigitValue(s[2]) * 10 + DigitValue(s[3])) * HOUR_SECONDS
                       + (DigitValue(minutes[1]) * 10 + DigitValue(minutes[2])) * 60)
        Read(s) ==
            IF s = <<>> \/ s[1] \notin signs THEN ScanFail(st)
            ELSE IF Len(s) < 3 \/ ~IsDigit(s[2]) \/ ~IsDigit(s[3]) THEN ScanFail(st)
            ELSE Minutes(s, colon_or_space(SubSeq(s, 4, Len(s))))
    IN IF ~st.ok THEN st ELSE Read(TrimStart(st.rest))

\* format::parse over the items of DATE_FORMAT, "%Y-%m-%d %H:%M:%S %z".
ScanDateTime(s, build) ==
    LET year == ScanNumeric(ScanStart(s), "year", 4, TRUE)
        month == ScanNumeric(ScanLiteral(year, "-"), "month", 2, FALSE)
        day == ScanNumeric(ScanLiteral(month, "-"), "day", 2, FALSE)
        hour == ScanNumeric(ScanSpace(day), "hour", 2, FALSE)
        minute == ScanNumeric(ScanLiteral(hour, ":"), "minute", 2, FALSE)
        second == ScanNumeric(ScanLiteral(minute, ":"), "second", 2, FALSE)
    IN ScanOffset(ScanSpace(second), build)

\* The text is read to its end in the shape of DATE_FORMAT.
DateTimeShape(s, build) ==
    LET ReadWhole(p) == p.ok /\ p.rest = <<>>
    IN ReadWhole(ScanDateTime(s, build))

\* The first and the last day of NaiveDate, as days since 1970-01-01.
MIN_DATE(build) == DaysFromCivil(MIN_YEAR(build), 1, 1)
MAX_DATE(build) == DaysFromCivil(MAX_YEAR(build), 12, 31)

\* Does DateTime::parse_from_str(s, DATE_FORMAT) succeed?  The text has the
\* shape, and Parsed::to_datetime finds every field in range: a date of the
\* calendar, a time of the day or the leap second 60, an offset below a day,
\* and the instant, the local time less the offset, on a day of NaiveDate.
ValidDateTime(s, build) ==
    LET utc_date(p) ==
            DaysFromCivil(p.year, p.month, p.day)
                + (p.hour * HOUR_SECONDS + p.minute * 60
                     + (IF p.second = 60 THEN 59 ELSE p.second) - p.offset) \div DAY_SECONDS
        to_datetime_ok(p) ==
            /\ p.year >= MIN_YEAR(build) /\ p.year <= MAX_YEAR(build)
            /\ p.month \in 1..12
            /\ p.day \in 1..DaysInMonth(p.year, p.month)
            /\ p.hour < 24 /\ p.minute < 60 /\ p.second <= 60
            /\ p.offset > -DAY_SECONDS /\ p.offset < DAY_SECONDS
            /\ utc_date(p) >= MIN_DATE(build) /\ utc_date(p) <= MAX_DATE(build)
    IN DateTimeShape(s, build) /\ to_datetime_ok(ScanDateTime(s, build))

\* The years all of whose instants the model's integers hold as seconds.
NEAR_YEARS == 1902..2037

\* The value DateTime::parse_from_str returns for a valid text.  The
\* timestamp of an instant of another year, an i64 in the code, is kept as
\* its day and its second of the day.
ParseDateTime(s, build) ==
    LET second(p) == IF p.second = 60 THEN 59 ELSE p.second
        nanos(p) == IF p.second = 60 THEN LEAP_NANOS ELSE 0
        utc_secs(p) == p.hour * HOUR_SECONDS + p.minute * 60 + second(p) - p.offset
        to_datetime(p) ==
            IF p.year \in NEAR_YEARS
            THEN WithNanos(DT(p.year, p.month, p.day, p.hour, p.minute, second(p), p.offset),
                           nanos(p))
            ELSE [ts |-> <<DaysFromCivil(p.year, p.month, p.day) + utc_secs(p) \div DAY_SECONDS,
                           utc_secs(p) % DAY_SECONDS>>,
                  off |-> p.offset,
                  ns |-> nanos(p)]
    IN to_datetime(ScanDateTime(s, build))

-----------------------------------------------------------------------------
(* DailyScore and its codec (daily_score.rs).                              *)

\* Option<String>
None == [some |-> FALSE]
Some(text) == [some |-> TRUE, val |-> text]

\* struct DailyScore { score, tags, comment, datetime }
DailyScore(score, tagset, comment, datetime) ==
    [score |-> score, tags |-> tagset, comment |-> comment, datetime |-> datetime]

\* Result<DailyScore, ParseError>
Ok(v) == [ok |-> TRUE, val |-> v]
Err(e) == [ok |-> FALSE, err |-> e]
MissingDateTime == [kind |-> "MissingDateTime"]
InvalidDateTime(text) == [kind |-> "InvalidDateTime", text |-> text]
MissingScore == [kind |-> "MissingScore"]
InvalidScore(text) == [kind |-> "InvalidScore", text |-> text]

\* The orders in which a HashSet<String> may hand out its elements.
IterOrders(set) ==
    {v \in [1..Cardinality(set) -> set] : \A x \in set : \E i \in DOMAIN v : v[i] = x}

\* A tags_string that joins the tags in the order the set hands them out.
tags_string_unsorted(iter) == Join(iter, <<TAGS_SEPARATOR>>)

\* DailyScore::tags_string, for the iteration order iter of self.tags
tags_string(iter) == Join(SortStr(iter), <<TAGS_SEPARATOR>>)

\* DailyScore::to_s, for the iteration order iter of self.tags
to_s(e, iter, build) ==
    LET comment_string == IF e.comment.some THEN <<" ">> \o e.comment.val ELSE <<>>
    IN FormatDateTime(e.datetime, build) \o <<" ", JOURNAL_SEPARATOR, " ">>
       \o IntToStr(e.score) \o <<" ", JOURNAL_SEPARATOR, " ">>
       \o tags_string(iter) \o <<" ", JOURNAL_SEPARATOR>>
       \o comment_string

\* Does str::parse::<i8> succeed?  An optional sign, then one or more digits,
\* and a value in the range of i8.
ValidScore(s) ==
    LET signed == s # <<>> /\ s[1] \in {"+", "-"}
        body == IF signed THEN Tail(s) ELSE s
        neg == signed /\ s[1] = "-"
    IN /\ body # <<>>
       /\ AllDigits(body)
       /\ DigitsValue(body, 0, -I8_MIN) <= (IF neg THEN -I8_MIN ELSE I8_MAX)

\* The value str::parse::<i8> returns for a valid text.
ParseScore(s) ==
    LET signed == s[1] \in {"+", "-"}
        body == IF signed THEN Tail(s) ELSE s
    IN (IF s[1] = "-" THEN -1 ELSE 1) * DigitsValue(body, 0, -I8_MIN)

\* A parse that reads the score before it reads the timestamp.
parse_score_first(text, build) ==
    LET slice == SplitN(4, text, <<" ", JOURNAL_SEPARATOR>>)
        field(i) == Trim(slice[i])
    IN IF Len(slice) < 2 THEN Err(MissingScore)
       ELSE IF ~ValidScore(field(2)) THEN Err(InvalidScore(field(2)))
       ELSE IF ~ValidDateTime(field(1), build) THEN Err(InvalidDateTime(field(1)))
       ELSE Ok(DailyScore(ParseScore(field(2)), {}, None, ParseDateTime(field(1), build)))

\* A parse that does not tell an empty tags field from a single empty tag.
parse_empty_tag(text, build) ==
    LET slice == SplitN(4, text, <<" ", JOURNAL_SEPARATOR>>)
        field(i) == Trim(slice[i])
        tags_str == IF Len(slice) >= 3 THEN field(3) ELSE <<>>
        tokens == Split(tags_str, <<",">>)
    IN IF ~ValidDateTime(field(1), build) THEN Err(InvalidDateTime(field(1)))
       ELSE IF Len(slice) < 2 THEN Err(MissingScore)
       ELSE IF ~ValidScore(field(2)) THEN Err(InvalidScore(field(2)))
       ELSE Ok(DailyScore(ParseScore(field(2)),
                          {tokens[i] : i \in DOMAIN tokens},
                          IF Len(slice) >= 4 THEN Some(field(4)) ELSE None,
                          ParseDateTime(field(1), build)))

\* A parse whose score is read with a type one bit wider than i8.
parse_wide_score(text, build) ==
    LET slice == SplitN(4, text, <<" ", JOURNAL_SEPARATOR>>)
        field(i) == Trim(slice[i])
        digits == IF field(2) # <<>> /\ field(2)[1] \in {"+", "-"}
                  THEN Tail(field(2)) ELSE field(2)
        wide == /\ digits # <<>> /\ AllDigits(digits)
                /\ DigitsValue(digits, 0, 2 * (-I8_MIN)) <= 2 * I8_MAX + 1
    IN IF ~ValidDateTime(field(1), build) THEN Err(InvalidDateTime(field(1)))
       ELSE IF Len(slice) < 2 THEN Err(MissingScore)
       ELSE IF ~wide THEN Err(InvalidScore(field(2)))
       ELSE Ok(DailyScore((IF field(2)[1] = "-" THEN -1 ELSE 1)
                             * DigitsValue(digits, 0, 2 * (-I8_MIN)),
                          {}, None, ParseDateTime(field(1), build)))

\* DailyScore::parse
parse(text, build) ==
    LET spaced_separator == <<" ", JOURNAL_SEPARATOR>>
        slice == SplitN(4, text, spaced_separator)
        \* .map(str::trim): the i-th piece, trimmed
        field(i) == Trim(slice[i])
        tags_str == IF Len(slice) >= 3 THEN field(3) ELSE <<>>
        tokens == Split(tags_str, <<",">>)
    IN IF Len(slice) < 1 THEN Err(MissingDateTime)
       ELSE IF ~ValidDateTime(field(1), build) THEN Err(InvalidDateTime(field(1)))
       ELSE IF Len(slice) < 2 THEN Err(MissingScore)
       ELSE IF ~ValidScore(field(2)) THEN Err(InvalidScore(field(2)))
       ELSE Ok(DailyScore(ParseScore(field(2)),
                          IF tags_str = <<>> THEN {} ELSE {tokens[i] : i \in DOMAIN tokens},
                          IF Len(slice) >= 4 THEN Some(field(4)) ELSE None,
                          ParseDateTime(field(1), build)))

-----------------------------------------------------------------------------
(* Inputs of the codec.                                                    *)

\* The largest tag set of a constructed entry.
MaxTags == 2

\* Tags a constructed entry may carry.
TagPool ==
    {<<"b">>,
     <<"b", "a", "r">>,
     <<"f", "o", "o">>}

\* Comment texts a constructed entry may carry.
CommentTexts ==
    {<<>>,
     <<"f", "o", "o">>,
     <<"f", "o", "o", " ", "|", "|", " ", "b", "a", "r">>}

ScorePool == {I8_MIN, -1, 0, 5, I8_MAX}

\* Timestamps of constructed entries; one is half a second past the second,
\* as Utc::now() hands it out, and one has an offset of 59 seconds.
DateTimePool ==
    {DT(2020, 1, 1, 9, 10, 11, 4 * HOUR_SECONDS),
     DT(2020, 1, 1, 9, 10, 11, 59),
     DT(2020, 2, 29, 0, 0, 0, 0),
     DT(2019, 12, 31, 23, 59, 59, -(3 * HOUR_SECONDS + 1800)),
     WithNanos(DT(2020, 3, 4, 12, 0, 0, 0), 500000000)}

\* The entries a caller can construct, within the pools.
EntryPool ==
    {DailyScore(sc, tg, cm, dt) :
        sc \in ScorePool,
        tg \in {t \in SUBSET TagPool : Cardinality(t) <= MaxTags},
        cm \in {None} \cup {Some(c) : c \in CommentTexts},
        dt \in DateTimePool}

\* Texts of the first field: valid timestamps, two of them not in the fixed
\* width to_s writes (fields without their zeros and an offset with a colon,
\* the leap second 60), and others.
DateTimeFields ==
    {<<"2", "0", "2", "0", "-", "2", "-", "1", " ", "9", ":", "1", "0", ":", "1", "1", " ", "+", "0", "2", ":", "0", "0">>,
     <<"2", "0", "2", "0", "-", "0", "2", "-", "0", "1", " ", "0", "9", ":", "1", "0", ":", "6", "0", " ", "+", "0", "2", "0", "0">>,
     <<"2", "0", "2", "0", "-", "0", "2", "-", "0", "1", " ", "0", "9", ":", "1", "0", ":", "1", "1", " ", "+", "0", "2", "0", "0">>,
     <<" ", "2", "0", "2", "0", "-", "0", "2", "-", "2", "9", " ", "2", "3", ":", "5", "9", ":", "5", "9", " ", "-", "0", "3", "3", "0">>,
     <<"2", "0", "2", "0", "-", "0", "2", "-", "0", "1", " ", "0", "9", ":", "1", "0", ":", "1", "1", " ", MINUS_SIGN, "0", "2", "0", "0">>,
     <<"2", "0", "2", "0", "-", "0", "2", "-", "0", "1", " ", "0", "9", ":", "1", "0", ":", "1", "1", " ", "+", "0", "0", "0", "0", "|">>,
     <<"2", "0", "2", "0", "-", "0", "2", "-", "3", "0", " ", "0", "9", ":", "1", "0", ":", "1", "1", " ", "+", "0", "0", "0", "0">>,
     <<"2", "0", "2", "0", "-", "0", "2", "-", "0", "1", " ", "0", "9", ":", "1", "0", ":", "1", "1">>,
     <<>>,
     <<"f", "o", "o", "o">>,
     <<"f", "o", "o", "|">>}

\* Texts between the first and the second separator.
ScoreFields ==
    {<<" ", "1">>,
     <<>>,
     <<" ">>,
     <<" ", "f", "o", "o">>,
     <<" ", "4", "|">>,
     <<" ", "1", "2", "7">>,
     <<" ", "1", "2", "8">>,
     <<" ", "-", "1", "2", "8">>,
     <<" ", "-", "1", "2", "9">>,
     <<" ", "+", "5">>,
     <<" ", "-">>,
     <<" ", "1", "a">>}

\* Texts between the second and the third separator.
TagsFields ==
    {<<>>,
     <<" ">>,
     <<" ", "f", "o", "o">>,
     <<" ", "b", "a", "r", ",", "b">>,
     <<" ", "b", ",", " ", "b", "a", "r">>,
     <<" ", ",", "f", "o", "o">>}

\* Texts after the third separator.
CommentFields ==
    {<<>>,
     <<" ">>,
     <<" ", "f", "o", "o">>,
     <<" ", "f", "o", "o", " ", "|", "|", " ", "b", "a", "r">>,
     <<" ", " ", "f", "o", "o", " ">>,
     <<" ", "f", "o", "o", "\r">>,
     <<" ", "b", " ", "|", " ", "c", " ", "|", " ", "a">>}

SEP == <<" ", JOURNAL_SEPARATOR>>

\* Lines of one to four fields, and more when the comment holds separators.
LinePool ==
    LET l1 == DateTimeFields
        l2 == {a \o SEP \o b : a \in l1, b \in ScoreFields}
        l3 == {a \o SEP \o b : a \in l2, b \in TagsFields}
        l4 == {a \o SEP \o b : a \in l3, b \in CommentFields}
    IN l1 \cup l2 \cup l3 \cup l4

NoEntry == [none |-> TRUE]
NoResult == [none |-> TRUE]
NoLine == <<"?">>

-----------------------------------------------------------------------------
(* The codec as a state machine: construct or read, encode, decode.        *)

NEWLINE == "\n"

\* A byte that no UTF-8 text holds, such as 0xFF
INVALID_BYTE == "0xFF"

\* The journal file as its bytes: the lines that a newline ends, each
\* without the newline, and the bytes after the last newline;  the file
\* that is not there;  and a directory at the journal's path.
File(lines, tail) == [exists |-> TRUE, dir |-> FALSE, lines |-> lines, tail |-> tail]
NoFile == [exists |-> FALSE, dir |-> FALSE, lines |-> <<>>, tail |-> <<>>]
Directory == [exists |-> TRUE, dir |-> TRUE, lines |-> <<>>, tail |-> <<>>]

JournalIdle ==
    /\ journal = NoFile
    /\ jphase = "closed"
    /\ examined = 0
    /\ position = 0
    /\ opened_after = 0
    /\ grants = <<>>
    /\ records = <<>>
    /\ read_result = NoResult
    /\ added = <<>>

\* The arguments thirty_days_moving_mood calls the moving report with.
THIRTY_DAYS_MOVING == [starts |-> 29, ends |-> 0, frame_size |-> 29]

ReportIdle ==
    /\ daily_scores = <<>>
    /\ tags = {}
    /\ now = DT(2020, 3, 4, 12, 0, 0, 0)
    /\ kind = "none"
    /\ ticks = [from |-> 1, by |-> 0]
    /\ panicked = FALSE
    /\ moving = THIRTY_DAYS_MOVING
    /\ report = <<>>

InitCodec ==
    /\ chrono \in CHRONO_BUILDS
    /\ \/ /\ origin = "entry"
          /\ entry \in EntryPool
          /\ line = NoLine
       \/ /\ origin = "text"
          /\ entry = NoEntry
          /\ line \in LinePool
    /\ cphase = "start"
    /\ decoded = NoResult
    /\ line2 = NoLine
    /\ decoded2 = NoResult
    /\ ReportIdle
    /\ JournalIdle

\* e.to_s() on the constructed entry
Encode ==
    /\ origin = "entry" /\ cphase = "start"
    /\ \E iter \in IterOrders(entry.tags) : line' = to_s(entry, iter, chrono)
    /\ cphase' = "encoded"
    /\ UNCHANGED <<origin, entry, decoded, line2, decoded2>>
    /\ UNCHANGED report_vars
    /\ UNCHANGED journal_vars
    /\ UNCHANGED build_vars

\* DailyScore::parse(line)
Decode ==
    /\ \/ origin = "entry" /\ cphase = "encoded"
       \/ origin = "text" /\ cphase = "start"
    /\ decoded' = parse(line, chrono)
    /\ cphase' = "decoded"
    /\ UNCHANGED <<origin, entry, line, line2, decoded2>>
    /\ UNCHANGED report_vars
    /\ UNCHANGED journal_vars
    /\ UNCHANGED build_vars

\* d.to_s() on the decoded entry
ReEncode ==
    /\ cphase = "decoded" /\ decoded.ok
    /\ \E iter \in IterOrders(decoded.val.tags) : line2' = to_s(decoded.val, iter, chrono)
    /\ cphase' = "reencoded"
    /\ UNCHANGED <<origin, entry, line, decoded, decoded2>>
    /\ UNCHANGED report_vars
    /\ UNCHANGED journal_vars
    /\ UNCHANGED build_vars

\* DailyScore::parse(d.to_s())
ReDecode ==
    /\ cphase = "reencoded"
    /\ decoded2' = parse(line2, chrono)
    /\ cphase' = "redecoded"
    /\ UNCHANGED <<origin, entry, line, decoded, line2>>
    /\ UNCHANGED report_vars
    /\ UNCHANGED journal_vars
    /\ UNCHANGED build_vars

NextCodec == Encode \/ Decode \/ ReEncode \/ ReDecode

SpecCodec == InitCodec /\ [][NextCodec]_vars

-----------------------------------------------------------------------------
(* The report engine (mood_report.rs).                                     *)

\* Rust's / and % on i64: the quotient is cut toward zero.
RustDiv(a, b) == IF a >= 0 THEN a \div b ELSE -((-a) \div b)
RustRem(a, b) == a - b * RustDiv(a, b)

RECURSIVE Reverse(_)
Reverse(v) == IF v = <<>> THEN <<>> ELSE Reverse(Tail(v)) \o <<Head(v)>>

\* The sum of the scores of a sequence of entries, as a number.
RECURSIVE SumScores(_)
SumScores(v) == IF v = <<>> THEN 0 ELSE Head(v).score + SumScores(Tail(v))

\* An element of daily_scores is a DailyScore, or a DailyScore with the
\* field copies: that many equal entries in a row of the vector.
Copies(daily_score) ==
    IF "copies" \in DOMAIN daily_score THEN daily_score.copies ELSE 1

\* An i32 addition that leaves the range of i32: a panic where the build
\* checks overflow (debug-assertions), a wrapped sum where it does not.
AddOverflows(a, b) ==
    \/ b > 0 /\ a > I32_MAX - b
    \/ b < 0 /\ a < I32_MIN - b

\* i32::wrapping_add, what + computes where overflow is not checked.
wrapping_add(a, b) ==
    IF ~AddOverflows(a, b) THEN a + b
    ELSE IF b > 0 THEN ((a - I32_MAX) + (b - I32_MAX)) - 2
    ELSE ((a + I32_MAX) + (b + I32_MAX)) + 2

\* How many times b can be added to a and stay inside i32 for certain, at
\* most n.
SafeTimes(a, b, n) ==
    LET room == IF b > 0
                THEN (IF a < 0 THEN I32_MAX ELSE I32_MAX - a)
                ELSE (IF a > 0 THEN I32_MAX ELSE a + I32_MAX)
        size == IF b > 0 THEN b ELSE -b
    IN IF room \div size < n THEN room \div size ELSE n

\* a after b was added to it n times, each time as wrapping_add does.
RECURSIVE add_times(_, _, _)
add_times(a, b, n) ==
    IF n = 0 \/ b = 0 THEN a
    ELSE IF SafeTimes(a, b, n) >= 1
         THEN add_times(a + SafeTimes(a, b, n) * b, b, n - SafeTimes(a, b, n))
         ELSE add_times(wrapping_add(a, b), b, n - 1)

\* Whether one of the n additions of b, begun at a, leaves the range of i32.
RECURSIVE add_times_overflows(_, _, _)
add_times_overflows(a, b, n) ==
    IF n = 0 \/ b = 0 THEN FALSE
    ELSE IF SafeTimes(a, b, n) >= 1
         THEN add_times_overflows(a + SafeTimes(a, b, n) * b, b, n - SafeTimes(a, b, n))
         ELSE AddOverflows(a, b) \/ add_times_overflows(a + b, b, n - 1)

\* .map(|daily_score| daily_score.score as i32).sum(), begun at acc
RECURSIVE wrapping_sum(_, _)
wrapping_sum(v, acc) ==
    IF v = <<>> THEN acc
    ELSE wrapping_sum(Tail(v), add_times(acc, Head(v).score, Copies(Head(v))))

\* Whether one of the additions of .sum(), begun at acc, overflows.
RECURSIVE SumOverflows(_, _)
SumOverflows(v, acc) ==
    IF v = <<>> THEN FALSE
    ELSE \/ add_times_overflows(acc, Head(v).score, Copies(Head(v)))
         \/ SumOverflows(Tail(v), add_times(acc, Head(v).score, Copies(Head(v))))

\* A filter that lets an entry pass when it carries any one of the tags.
PassesTags_any(daily_score, tgs) ==
    tgs = {} \/ \E tag \in tgs : tag \in daily_score.tags

\* self.tags.iter().all(|tag| daily_score.tags.contains(tag))
PassesTags(daily_score, tgs) == \A tag \in tgs : tag \in daily_score.tags

\* The entries a closure is applied to.
Elements(scores) == {scores[i] : i \in DOMAIN scores}

\* MoodReport::filter_mood_sum; the closure filter_fn is given as the function
\* from the entries to its verdict on each
filter_mood_sum(scores, tgs, filter_fn) ==
    LET keep(daily_score) == filter_fn[daily_score] /\ PassesTags(daily_score, tgs)
    IN wrapping_sum(SelectSeq(scores, keep), 0)

\* Whether filter_mood_sum panics: an addition of the sum overflows in a
\* build that checks overflow.
filter_mood_sum_panics(scores, tgs, filter_fn, overflow_checks) ==
    LET keep(daily_score) == filter_fn[daily_score] /\ PassesTags(daily_score, tgs)
    IN overflow_checks /\ SumOverflows(SelectSeq(scores, keep), 0)

\* A window that compares instants where the code compares dates.
window_mood_by_instant(scores, tgs, t, days) ==
    LET from == WithOffset(MinusDays(t, days), t.off)
        in_window == [daily_score \in Elements(scores) |->
                         daily_score.datetime.ts >= from.ts]
    IN filter_mood_sum(scores, tgs, in_window)

\* The body thirty_days_mood and yearly_mood share: the sum of the entries
\* dated on or after the date `days` days before t.
window_mood(scores, tgs, t, days) ==
    LET from == WithOffset(MinusDays(t, days), t.off)
        in_window == [daily_score \in Elements(scores) |->
                         DateOf(daily_score.datetime) >= DateOf(from)]
    IN filter_mood_sum(scores, tgs, in_window)

\* Whether the body thirty_days_mood and yearly_mood share panics.
window_mood_panics(scores, tgs, t, days, overflow_checks) ==
    LET from == WithOffset(MinusDays(t, days), t.off)
        in_window == [daily_score \in Elements(scores) |->
                         DateOf(daily_score.datetime) >= DateOf(from)]
    IN filter_mood_sum_panics(scores, tgs, in_window, overflow_checks)

\* MoodReport::thirty_days_mood, with Local::now() = t
thirty_days_mood(scores, tgs, t) == window_mood(scores, tgs, t, 29)

\* MoodReport::yearly_mood, with Local::now() = t
yearly_mood(scores, tgs, t) == window_mood(scores, tgs, t, 364)

\* The seconds the clock has advanced when the loop of the moving report
\* samples it for the k-th time: tk.by seconds from the tk.from-th sample on.
Elapsed(tk, k) == IF k >= tk.from THEN tk.by ELSE 0

\* timeframed_moving_mood_report with frames that have no last day
timeframed_moving_unbounded(scores, tgs, t, tk, starts_at_days_ago, ends_at_days_ago, frame_size) ==
    LET fixed_now == WithOffset(t, t.off)
        frame(k) ==
            LET frame_ends_at_days_ago == starts_at_days_ago - (k - 1)
                frame_ends_at_timestamp ==
                    (t.ts + Elapsed(tk, k)) - frame_ends_at_days_ago * DAY_SECONDS
                frame_end_date == DateOf(fixed_now) - frame_ends_at_days_ago
                frame_start_date == frame_end_date - frame_size
                in_frame == [daily_score \in Elements(scores) |->
                                DateOf(daily_score.datetime) >= frame_start_date]
            IN <<frame_ends_at_timestamp, filter_mood_sum(scores, tgs, in_frame)>>
    IN [k \in 1..(starts_at_days_ago - ends_at_days_ago + 1) |-> frame(k)]

\* MoodReport::timeframed_moving_mood_report, with Local::now() = t at its
\* start and the clock read again in every turn of the loop.  fixed_now less
\* Duration::days(n) shows the same time of day n dates earlier, so the dates
\* of frame_end and frame_start are taken from the date of fixed_now.
timeframed_moving_mood_report(scores, tgs, t, tk, starts_at_days_ago, ends_at_days_ago, frame_size) ==
    LET fixed_now == WithOffset(t, t.off)
        frame(k) ==
            LET frame_ends_at_days_ago == starts_at_days_ago - (k - 1)
                frame_ends_at_timestamp ==
                    (t.ts + Elapsed(tk, k)) - frame_ends_at_days_ago * DAY_SECONDS
                frame_end_date == DateOf(fixed_now) - frame_ends_at_days_ago
                frame_start_date == frame_end_date - frame_size
                in_frame == [daily_score \in Elements(scores) |->
                                /\ DateOf(daily_score.datetime) >= frame_start_date
                                /\ DateOf(daily_score.datetime) <= frame_end_date]
            IN <<frame_ends_at_timestamp, filter_mood_sum(scores, tgs, in_frame)>>
    IN [k \in 1..(starts_at_days_ago - ends_at_days_ago + 1) |-> frame(k)]

\* Whether timeframed_moving_mood_report ends without a value.  In a build
\* that checks overflow the u32 subtraction for the reserve underflows or
\* the sum of a frame overflows, and the call panics.  In a build that does
\* not, the difference wraps to 2^32 + starts - ends, hist.reserve asks for
\* that many pairs of 16 bytes, and the process aborts when the allocator
\* refuses them (alloc_fails);  when it grants them the report is empty.
\* In every build `DateTime - TimeDelta` panics in a turn of the loop when
\* the instant of frame_end or of frame_start would lie before the first
\* day of NaiveDate;  and frame_start.date(), which the closure asks for
\* with every entry it is given, panics when the day frame_start shows on
\* its own wall clock lies before that first day.
timeframed_moving_mood_report_panics(scores, tgs, t, starts_at_days_ago, ends_at_days_ago, frame_size, overflow_checks, alloc_fails, build) ==
    LET fixed_now == WithOffset(t, t.off)
        utc_date == fixed_now.ts \div DAY_SECONDS
        frame_panics(frame_ends_at_days_ago) ==
            LET frame_end_date == DateOf(fixed_now) - frame_ends_at_days_ago
                frame_start_date == frame_end_date - frame_size
                in_frame == [daily_score \in Elements(scores) |->
                                /\ DateOf(daily_score.datetime) >= frame_start_date
                                /\ DateOf(daily_score.datetime) <= frame_end_date]
            IN \/ utc_date - frame_ends_at_days_ago < MIN_DATE(build)
               \/ utc_date - frame_ends_at_days_ago - frame_size < MIN_DATE(build)
               \/ scores # <<>> /\ frame_start_date < MIN_DATE(build)
               \/ filter_mood_sum_panics(scores, tgs, in_frame, overflow_checks)
    IN \/ overflow_checks /\ starts_at_days_ago - ends_at_days_ago < 0
       \/ ~overflow_checks /\ starts_at_days_ago - ends_at_days_ago < 0 /\ alloc_fails
       \/ \E frame_ends_at_days_ago \in ends_at_days_ago..starts_at_days_ago :
              frame_panics(frame_ends_at_days_ago)

\* MoodReport::thirty_days_moving_mood
thirty_days_moving_mood(scores, tgs, t, tk) ==
    timeframed_moving_mood_report(scores, tgs, t, tk, 29, 0, 29)

\* The bucket an entry falls into, counted back from the report's end: the
\* second is taken off so that an entry a whole number of periods before the
\* end goes with the period that begins there.
bucket_index_no_decrement(seconds_before_report_end, period) ==
    RustDiv(seconds_before_report_end, period)

bucket_index(seconds_before_report_end, period) ==
    RustDiv(seconds_before_report_end - 1, period)

\* Vec::resize_with in iterative_const_period_report: data grown to new_len
\* buckets, each new one at its period's end with the sum 0.
resize_with(data, new_len, report_ends_at, period) ==
    [k \in 1..new_len |->
        IF k <= Len(data) THEN data[k]
        ELSE <<report_ends_at.ts - (k - 1) * period, 0>>]

\* The loop of iterative_const_period_report over the filtered entries;
\* st.data is the vector built so far, st.data[k] the bucket with index
\* k - 1, and st.panicked tells that an index was out of the vector's bounds
\* or, in a build that checks overflow, that an addition overflowed, which
\* ends the loop.
RECURSIVE const_period_loop(_, _, _, _, _)
const_period_loop(scores, st, report_ends_at, period, overflow_checks) ==
    IF scores = <<>> \/ st.panicked THEN st
    ELSE
        LET daily_score == Head(scores)
            data == st.data
            seconds_before_report_end == report_ends_at.ts - daily_score.datetime.ts
            i_i64 == bucket_index(seconds_before_report_end, period)
        IN IF i_i64 < 0
           THEN const_period_loop(Tail(scores), st, report_ends_at, period,
                                  overflow_checks)
           ELSE
             LET i == i_i64
                 seconds_to_next_period == RustRem(seconds_before_report_end, period)
                 resized ==
                     IF i >= Len(data)
                     THEN resize_with(data, i + 1, report_ends_at, period)
                     ELSE data
                 updated ==
                     [resized EXCEPT ![i + 1] =
                         <<daily_score.datetime.ts + seconds_to_next_period,
                           add_times(resized[i + 1][2], daily_score.score,
                                     Copies(daily_score))>>]
             IN IF i >= Len(resized)
                THEN [data |-> resized, panicked |-> TRUE]
                ELSE IF /\ overflow_checks
                        /\ add_times_overflows(resized[i + 1][2], daily_score.score,
                                               Copies(daily_score))
                THEN [data |-> resized, panicked |-> TRUE]
                ELSE const_period_loop(Tail(scores), [data |-> updated, panicked |-> FALSE],
                                       report_ends_at, period, overflow_checks)

\* The vector before the loop, Vec::new().
NewVec == [data |-> <<>>, panicked |-> FALSE]

\* iterative_const_period_report with the periods that got no entry left out
iterative_const_period_report_no_gaps(scores, tgs, report_ends_at, period) ==
    LET keep(daily_score) ==
            /\ PassesTags(daily_score, tgs)
            /\ Before(daily_score.datetime, report_ends_at)
        filtered_daily_scores == SelectSeq(scores, keep)
        filled(bucket) == bucket[2] # 0
    IN SelectSeq(Reverse(const_period_loop(filtered_daily_scores, NewVec,
                                           report_ends_at, period, FALSE).data),
                 filled)

\* iterative_const_period_report without the filter on report_ends_at
iterative_const_period_report_no_end(scores, tgs, report_ends_at, period) ==
    LET keep(daily_score) == PassesTags(daily_score, tgs)
        filtered_daily_scores == SelectSeq(scores, keep)
    IN Reverse(const_period_loop(filtered_daily_scores, NewVec, report_ends_at, period,
                                 FALSE).data)

\* MoodReport::iterative_const_period_report
iterative_const_period_report(scores, tgs, report_ends_at, period) ==
    LET keep(daily_score) ==
            /\ PassesTags(daily_score, tgs)
            /\ Before(daily_score.datetime, report_ends_at)
        filtered_daily_scores == SelectSeq(scores, keep)
    IN Reverse(const_period_loop(filtered_daily_scores, NewVec, report_ends_at, period,
                                 FALSE).data)

\* Whether iterative_const_period_report panics.
iterative_const_period_report_panics(scores, tgs, report_ends_at, period, overflow_checks) ==
    LET keep(daily_score) ==
            /\ PassesTags(daily_score, tgs)
            /\ Before(daily_score.datetime, report_ends_at)
        filtered_daily_scores == SelectSeq(scores, keep)
    IN const_period_loop(filtered_daily_scores, NewVec, report_ends_at, period,
                         overflow_checks).panicked

\* Weekday::num_days_from_monday of a day number (1970-01-01 was a Thursday)
NumDaysFromMonday(day) == (day + 3) % 7

\* A report in weeks that ends at the midnight of today, whatever the
\* weekday.
iterative_weekly_mood_from_today(scores, tgs, t) ==
    LET today == DateOf(WithOffset(t, t.off))
    IN iterative_const_period_report(scores, tgs, Midnight(today, t.off), WEEK_SECONDS)

\* A report in periods of 7 days that ends at the midnight of today.
iterative_seven_days_mood_from_today(scores, tgs, t) ==
    LET today == DateOf(WithOffset(t, t.off))
    IN iterative_const_period_report(scores, tgs, Midnight(today, t.off), WEEK_SECONDS)

\* MoodReport::iterative_weekly_mood, with Local::now() = t
iterative_weekly_mood(scores, tgs, t) ==
    LET today == DateOf(WithOffset(t, t.off))
        last_monday == MinusDays(Midnight(today, t.off), NumDaysFromMonday(today))
    IN iterative_const_period_report(scores, tgs, last_monday, WEEK_SECONDS)

\* MoodReport::iterative_seven_days_mood, with Local::now() = t
iterative_seven_days_mood(scores, tgs, t) ==
    LET today == DateOf(WithOffset(t, t.off))
        beginning_of_next_day == Midnight(today + 1, t.off)
    IN iterative_const_period_report(scores, tgs, beginning_of_next_day, WEEK_SECONDS)

\* MoodReport::iterative_thirty_days_mood, with Local::now() = t
iterative_thirty_days_mood(scores, tgs, t) ==
    LET today == DateOf(WithOffset(t, t.off))
        beginning_of_next_day == Midnight(today + 1, t.off)
    IN iterative_const_period_report(scores, tgs, beginning_of_next_day, DAY_SECONDS * 30)

\* MoodReport::beginning_of_month: midnight of the first day of the month of
\* the date the value shows on its own offset
beginning_of_month(datetime) ==
    LET day == DateOf(datetime)
        day0 == CivilFromDays(day).d - 1
    IN MinusDays(Midnight(day, datetime.off), day0)

\* MoodReport::beginning_of_previous_month
beginning_of_previous_month(datetime) ==
    beginning_of_month(Midnight(DateOf(datetime) - 1, datetime.off))

\* The first loop of iterative_monthly_mood: st.earliest is
\* earliest_datetime, st.sums the HashMap monthly_scores, and st.panicked
\* tells that, in a build that checks overflow, an addition overflowed,
\* which ends the loop.
RECURSIVE monthly_group(_, _, _, _)
monthly_group(scores, st, beginning_of_current_month, overflow_checks) ==
    IF scores = <<>> \/ st.panicked THEN st
    ELSE
        LET daily_score == Head(scores)
            key == beginning_of_month(daily_score.datetime).ts
            monthly_score_sum == IF key \in DOMAIN st.sums THEN st.sums[key] ELSE 0
            sums == [k \in DOMAIN st.sums \cup {key} |->
                        IF k = key
                        THEN add_times(monthly_score_sum, daily_score.score,
                                       Copies(daily_score))
                        ELSE st.sums[k]]
            earliest == IF Before(daily_score.datetime, st.earliest)
                        THEN daily_score.datetime ELSE st.earliest
        IN IF ~Before(daily_score.datetime, beginning_of_current_month)
           THEN monthly_group(Tail(scores), st, beginning_of_current_month,
                              overflow_checks)
           ELSE IF /\ overflow_checks
                   /\ add_times_overflows(monthly_score_sum, daily_score.score,
                                          Copies(daily_score))
           THEN [st EXCEPT !.panicked = TRUE]
           ELSE monthly_group(Tail(scores),
                              [earliest |-> earliest, sums |-> sums, panicked |-> FALSE],
                              beginning_of_current_month, overflow_checks)

\* The second loop of iterative_monthly_mood: the walk back, month by month.
RECURSIVE monthly_walk(_, _, _)
monthly_walk(month_start, st, data) ==
    IF Before(beginning_of_month(st.earliest), month_start)
    THEN LET previous == beginning_of_previous_month(month_start)
             previous_month_timestamp == previous.ts
             sum == IF previous_month_timestamp \in DOMAIN st.sums
                    THEN st.sums[previous_month_timestamp] ELSE 0
         IN monthly_walk(previous, st, Append(data, <<month_start.ts, sum>>))
    ELSE data

\* MoodReport::iterative_monthly_mood, with Local::now() = t.  The tag filter
\* takes no part in it.
iterative_monthly_mood(scores, tgs, t) ==
    LET now_fixed_offset == WithOffset(t, t.off)
        beginning_of_current_month == beginning_of_month(now_fixed_offset)
        st == monthly_group(scores,
                            [earliest |-> now_fixed_offset, sums |-> <<>>, panicked |-> FALSE],
                            beginning_of_current_month, FALSE)
    IN Reverse(monthly_walk(beginning_of_current_month, st, <<>>))

\* Whether iterative_monthly_mood panics.
iterative_monthly_mood_panics(scores, tgs, t, overflow_checks) ==
    LET now_fixed_offset == WithOffset(t, t.off)
        beginning_of_current_month == beginning_of_month(now_fixed_offset)
    IN monthly_group(scores,
                     [earliest |-> now_fixed_offset, sums |-> <<>>, panicked |-> FALSE],
                     beginning_of_current_month, overflow_checks).panicked

\* Whether the aggregate named k panics, in a build that checks overflow
\* and in one that does not.
Panics(k, scores, tgs, t, overflow_checks) ==
    LET today == DateOf(WithOffset(t, t.off))
        last_monday == MinusDays(Midnight(today, t.off), NumDaysFromMonday(today))
        beginning_of_next_day == Midnight(today + 1, t.off)
    IN CASE k = "thirty_days_mood" -> window_mood_panics(scores, tgs, t, 29, overflow_checks)
         [] k = "yearly_mood" -> window_mood_panics(scores, tgs, t, 364, overflow_checks)
         [] k = "thirty_days_moving_mood" ->
                timeframed_moving_mood_report_panics(scores, tgs, t, 29, 0, 29,
                                                     overflow_checks, FALSE, LATEST_BUILD)
         [] k = "iterative_weekly_mood" ->
                iterative_const_period_report_panics(scores, tgs, last_monday, WEEK_SECONDS,
                                                     overflow_checks)
         [] k = "iterative_seven_days_mood" ->
                iterative_const_period_report_panics(scores, tgs, beginning_of_next_day,
                                                     WEEK_SECONDS, overflow_checks)
         [] k = "iterative_thirty_days_mood" ->
                iterative_const_period_report_panics(scores, tgs, beginning_of_next_day,
                                                     DAY_SECONDS * 30, overflow_checks)
         [] k = "iterative_monthly_mood" -> iterative_monthly_mood_panics(scores, tgs, t, overflow_checks)

\* The aggregate named k.
Aggregate(k, scores, tgs, t, tk) ==
    CASE k = "thirty_days_mood" -> thirty_days_mood(scores, tgs, t)
      [] k = "yearly_mood" -> yearly_mood(scores, tgs, t)
      [] k = "thirty_days_moving_mood" -> thirty_days_moving_mood(scores, tgs, t, tk)
      [] k = "iterative_weekly_mood" -> iterative_weekly_mood(scores, tgs, t)
      [] k = "iterative_seven_days_mood" -> iterative_seven_days_mood(scores, tgs, t)
      [] k = "iterative_thirty_days_mood" -> iterative_thirty_days_mood(scores, tgs, t)
      [] k = "iterative_monthly_mood" -> iterative_monthly_mood(scores, tgs, t)

-----------------------------------------------------------------------------
(* Inputs of the report engine.                                            *)

\* The longest entry sequence handed to a report.
MaxEntries == 2

TagA == <<"a">>
TagB == <<"b">>
TagC == <<"c">>

\* The filters of a report: none, one tag, two tags the entries carry
\* together, and two tags no entry carries together.
FilterPool == {{}, {TagA}, {TagA, TagB}, {TagA, TagC}}

\* The instants at which reports are asked for: a quarter of a second past a
\* Wednesday noon at +02:00, and half a minute into a new year at -05:00.
NowPool ==
    {WithNanos(DT(2020, 3, 4, 12, 0, 0, 2 * HOUR_SECONDS), 250000000),
     DT(2020, 1, 1, 0, 0, 30, -(5 * HOUR_SECONDS))}

\* The entry that shows, on the wall clock of offset t.off + shift, the time
\* secs on the day days_ago days before the day the caller's clock shows.
EntryAt(t, days_ago, secs, shift, score, tagset) ==
    DailyScore(score, tagset, None,
               [ts |-> (DateOf(t) - days_ago) * DAY_SECONDS + secs - (t.off + shift),
                off |-> t.off + shift,
                ns |-> 0])

\* The entry e, dated ns nanoseconds later.
AtNanos(e, ns) == [e EXCEPT !.datetime = WithNanos(e.datetime, ns)]

LastNano == LEAP_NANOS - 1

LastSecond == DAY_SECONDS - 1

\* Entries around the edges of the windows of a report asked for at t: today
\* and tomorrow, both ends of the days 29 and 364 days back and the days
\* before them (the day 30 days back to its last nanosecond), two entries
\* half an hour from midnight whose own offset shows another date than the
\* caller's, and the instant of the first of them written on the caller's
\* own offset.
ReportEntryPool(t) ==
    {EntryAt(t, 0, 12 * HOUR_SECONDS, 0, 1, {}),
     EntryAt(t, -1, 0, 0, 32, {TagA}),
     EntryAt(t, 29, 0, 0, 2, {TagA, TagB}),
     EntryAt(t, 29, LastSecond, 0, 4, {TagA}),
     AtNanos(EntryAt(t, 30, LastSecond, 0, -3, {TagA, TagB}), LastNano),
     EntryAt(t, 40, 12 * HOUR_SECONDS, 0, 5, {}),
     EntryAt(t, 364, 0, 0, 8, {TagA}),
     EntryAt(t, 365, LastSecond, 0, 16, {}),
     EntryAt(t, 29, 1800, HOUR_SECONDS, 64, {}),
     EntryAt(t, 30, LastSecond - 1800, -HOUR_SECONDS, -64, {TagA}),
     EntryAt(t, 30, DAY_SECONDS - 1800, 0, 7, {})}

\* The sequences of at most n elements of pool.
SeqsUpTo(pool, n) == UNION {[1..k -> pool] : k \in 0..n}

\* How the clock may advance while the moving report runs: not at all, a
\* second before the first frame, a second before the sixteenth.
SteadyClock == [from |-> 1, by |-> 0]
TickPool == {SteadyClock, [from |-> 1, by |-> 1], [from |-> 16, by |-> 1]}

-----------------------------------------------------------------------------
(* The report engine as a state machine: a MoodReport is built over the    *)
(* entries read and one aggregate is asked of it.                          *)

CodecIdle ==
    /\ origin = "none"
    /\ cphase = "start"
    /\ entry = NoEntry
    /\ line = NoLine
    /\ decoded = NoResult
    /\ line2 = NoLine
    /\ decoded2 = NoResult

InitReport ==
    /\ chrono = LATEST_BUILD
    /\ now \in NowPool
    /\ daily_scores \in SeqsUpTo(ReportEntryPool(now), MaxEntries)
    /\ tags \in FilterPool
    /\ kind = "none"
    /\ ticks = SteadyClock
    /\ panicked = FALSE
    /\ moving = THIRTY_DAYS_MOVING
    /\ report = <<>>
    /\ CodecIdle
    /\ JournalIdle

\* One aggregate is asked of the report, in a program built with overflow
\* checks (the debug profile) or without them (the release profile).
Run(k, tk) ==
    /\ kind = "none"
    /\ kind' = k
    /\ ticks' = tk
    /\ \E overflow_checks \in BOOLEAN :
          panicked' = Panics(k, daily_scores, tags, now, overflow_checks)
    /\ report' = IF panicked' THEN <<>> ELSE Aggregate(k, daily_scores, tags, now, tk)
    /\ UNCHANGED <<daily_scores, tags, now, moving>>
    /\ UNCHANGED codec_vars
    /\ UNCHANGED journal_vars
    /\ UNCHANGED build_vars

ThirtyDaysMood == Run("thirty_days_mood", SteadyClock)
YearlyMood == Run("yearly_mood", SteadyClock)
ThirtyDaysMovingMood == \E tk \in TickPool : Run("thirty_days_moving_mood", tk)
IterativeWeeklyMood == Run("iterative_weekly_mood", SteadyClock)
IterativeSevenDaysMood == Run("iterative_seven_days_mood", SteadyClock)
IterativeThirtyDaysMood == Run("iterative_thirty_days_mood", SteadyClock)
IterativeMonthlyMood == Run("iterative_monthly_mood", SteadyClock)

NextReport ==
    \/ ThirtyDaysMood
    \/ YearlyMood
    \/ ThirtyDaysMovingMood
    \/ IterativeWeeklyMood
    \/ IterativeSevenDaysMood
    \/ IterativeThirtyDaysMood
    \/ IterativeMonthlyMood

SpecReport == InitReport /\ [][NextReport]_vars

\* ---- The reports in periods, asked for over entries at period edges ----

MaxPeriodEntries == 3

\* A quarter of a second past a Wednesday noon at +02:00, and the first
\* instant of a Monday that is also the first day of a month, at -05:00.
PeriodNowPool ==
    {WithNanos(DT(2020, 3, 4, 12, 0, 0, 2 * HOUR_SECONDS), 250000000),
     DT(2020, 6, 1, 0, 0, 0, -(5 * HOUR_SECONDS))}

PeriodFilterPool == {{}, {TagA}}

\* Entries placed against the anchors of a report asked for at t, w being
\* the days since the last Monday: 1, 2 and 15 days before that Monday, the
\* Monday itself and the Monday a week before it, today half a second past
\* noon, the midnights 7 and 30 days before the coming one, a noon 9 days
\* ago on a wall clock one hour ahead, and a noon 70 days ago.
PeriodEntryPool(t) ==
    LET w == NumDaysFromMonday(DateOf(t))
    IN {EntryAt(t, w + 1, 0, 0, 2, {}),
        EntryAt(t, w + 2, 0, 0, 3, {TagA}),
        EntryAt(t, w + 15, 0, 0, 4, {TagA}),
        EntryAt(t, w, 0, 0, 16, {TagA}),
        EntryAt(t, w + 7, 0, 0, 8, {}),
        AtNanos(EntryAt(t, 0, 12 * HOUR_SECONDS, 0, -10, {}), 500000000),
        EntryAt(t, 6, 0, 0, 32, {}),
        EntryAt(t, 29, 0, 0, 64, {TagA}),
        EntryAt(t, 9, 12 * HOUR_SECONDS, HOUR_SECONDS, -3, {}),
        EntryAt(t, 70, 12 * HOUR_SECONDS, 0, 5, {})}

InitPeriod ==
    /\ chrono = LATEST_BUILD
    /\ now \in PeriodNowPool
    /\ daily_scores \in SeqsUpTo(PeriodEntryPool(now), MaxPeriodEntries)
    /\ tags \in PeriodFilterPool
    /\ kind = "none"
    /\ ticks = SteadyClock
    /\ panicked = FALSE
    /\ moving = THIRTY_DAYS_MOVING
    /\ report = <<>>
    /\ CodecIdle
    /\ JournalIdle

NextPeriod ==
    \/ IterativeWeeklyMood
    \/ IterativeSevenDaysMood
    \/ IterativeThirtyDaysMood
    \/ IterativeMonthlyMood

SpecPeriod == InitPeriod /\ [][NextPeriod]_vars

\* ---- The reports asked for over vectors long enough to overflow i32 ----

\* The fewest entries of the largest score whose sum is past i32::MAX.
OverflowRun == I32_MAX \div I8_MAX + 1

\* n entries equal to e in a row.
Repeated(e, n) ==
    [f \in DOMAIN e \cup {"copies"} |-> IF f = "copies" THEN n ELSE e[f]]

\* Entries of yesterday and of 40 days ago: a run of the largest score long
\* enough to overflow, the same run one entry shorter, a run of the smallest
\* score, and a single entry.
OverflowEntryPool(t) ==
    {Repeated(EntryAt(t, 1, 12 * HOUR_SECONDS, 0, I8_MAX, {TagA}), OverflowRun),
     Repeated(EntryAt(t, 1, 12 * HOUR_SECONDS, 0, I8_MAX, {}), OverflowRun - 1),
     Repeated(EntryAt(t, 40, 12 * HOUR_SECONDS, 0, I8_MIN, {TagA}), OverflowRun),
     EntryAt(t, 40, 12 * HOUR_SECONDS, 0, 1, {})}

InitOverflow ==
    /\ chrono = LATEST_BUILD
    /\ now \in NowPool
    /\ daily_scores \in SeqsUpTo(OverflowEntryPool(now), MaxEntries)
    /\ tags \in PeriodFilterPool
    /\ kind = "none"
    /\ ticks = SteadyClock
    /\ panicked = FALSE
    /\ moving = THIRTY_DAYS_MOVING
    /\ report = <<>>
    /\ CodecIdle
    /\ JournalIdle

SpecOverflow == InitOverflow /\ [][NextReport]_vars

\* ---- The moving report asked with other arguments than 29, 0 and 29 ----

\* Arguments of timeframed_moving_mood_report: those of its caller, a single
\* frame, frames without width, a start below the end, and frames that
\* reach back to the first day of NaiveDate of some builds and of all.
\* A frame of 96483555 days that ends on 2020-01-02 starts on the first day
\* of NaiveDate of chrono 0.4.44.
MovingPool ==
    {THIRTY_DAYS_MOVING,
     [starts |-> 0, ends |-> 0, frame_size |-> 0],
     [starts |-> 3, ends |-> 1, frame_size |-> 0],
     [starts |-> 2, ends |-> 2, frame_size |-> 5],
     [starts |-> 0, ends |-> 1, frame_size |-> 1],
     [starts |-> 1, ends |-> 3, frame_size |-> 1],
     [starts |-> 0, ends |-> 0, frame_size |-> 96483555],
     [starts |-> 1, ends |-> 0, frame_size |-> 96483800],
     [starts |-> 1, ends |-> 0, frame_size |-> 97000000]}

\* The instants of NowPool, and an evening at -05:00 that is the next day
\* at UTC.
MovingNowPool == NowPool \cup {DT(2020, 1, 1, 20, 0, 0, -(5 * HOUR_SECONDS))}

InitMoving ==
    /\ chrono \in READER_BUILDS
    /\ now \in MovingNowPool
    /\ daily_scores \in SeqsUpTo(ReportEntryPool(now), MaxEntries)
    /\ tags \in PeriodFilterPool
    /\ kind = "none"
    /\ ticks = SteadyClock
    /\ panicked = FALSE
    /\ moving \in MovingPool
    /\ report = <<>>
    /\ CodecIdle
    /\ JournalIdle

\* MoodReport::timeframed_moving_mood_report(starts, ends, frame_size), in a
\* program built with overflow checks or without them, on a machine that
\* grants what hist.reserve asks for or refuses it.
TimeframedMoving ==
    /\ kind = "none"
    /\ kind' = "timeframed_moving_mood_report"
    /\ ticks' \in TickPool
    /\ \E overflow_checks \in BOOLEAN, alloc_fails \in BOOLEAN :
          panicked' = timeframed_moving_mood_report_panics(
                          daily_scores, tags, now, moving.starts, moving.ends,
                          moving.frame_size, overflow_checks, alloc_fails, chrono)
    /\ report' = IF panicked' THEN <<>>
                 ELSE timeframed_moving_mood_report(daily_scores, tags, now, ticks',
                          moving.starts, moving.ends, moving.frame_size)
    /\ UNCHANGED <<daily_scores, tags, now, moving>>
    /\ UNCHANGED codec_vars
    /\ UNCHANGED journal_vars
    /\ UNCHANGED build_vars

NextMoving == TimeframedMoving

SpecMoving == InitMoving /\ [][NextMoving]_vars

-----------------------------------------------------------------------------
(* Reading the journal (journal.rs read; the same loop opens              *)
(* MoodCommand::run in mood_command.rs).                                   *)

\* JournalError::DailyScoreParseError { line, daily_score_parse_error }
DailyScoreParseError(line_string, daily_score_parse_error) ==
    [kind |-> "DailyScoreParseError", line |-> line_string,
     daily_score_parse_error |-> daily_score_parse_error]

\* JournalError::CannotOpenFile
CannotOpenFile == [kind |-> "CannotOpenFile"]

\* JournalError::CannotReadLine { file_path, read_error }, with the kind of
\* the io::Error
CannotReadLine(read_error) == [kind |-> "CannotReadLine", read_error |-> read_error]

\* Whether the bytes of a line are UTF-8, which BufRead::lines asks of them.
IsUtf8(bytes) == \A i \in DOMAIN bytes : bytes[i] # INVALID_BYTE

\* What BufRead::lines yields for a file that does not change: every line
\* that ends in a newline, without it and without a carriage return before
\* it, and then the bytes after the last newline when there are any.
StripCR(piece) ==
    IF piece # <<>> /\ piece[Len(piece)] = "\r"
    THEN SubSeq(piece, 1, Len(piece) - 1)
    ELSE piece

Lines(file) ==
    [n \in DOMAIN file.lines |-> StripCR(file.lines[n])]
        \o (IF file.tail = <<>> THEN <<>> ELSE <<file.tail>>)

\* The bytes of a file, each of its lines with the newline that ends it.
RECURSIVE Flatten(_)
Flatten(lines) ==
    IF lines = <<>> THEN <<>>
    ELSE lines[1] \o <<NEWLINE>> \o Flatten(Tail(lines))

Bytes(file) == Flatten(file.lines) \o file.tail

\* BufRead::read_line as Lines::next calls it, on a reader that has taken
\* `taken` bytes of the file: the bytes up to the next newline and past it,
\* or the bytes up to the end of the file when no newline is there, which
\* keep a carriage return at their end.  `bytes` is what next() yields,
\* `taken` the bytes taken after it.
next_line(file, taken) ==
    LET rest == SubSeq(Bytes(file), taken + 1, Len(Bytes(file)))
        i == Find(rest, <<NEWLINE>>)
    IN IF i = 0
       THEN [bytes |-> rest, taken |-> taken + Len(rest)]
       ELSE [bytes |-> StripCR(SubSeq(rest, 1, i - 1)), taken |-> taken + i]

\* One turn of the loop that goes on after a line that does not decode.
read_line_skipping(recs, line_bytes, build) ==
    IF ~IsUtf8(line_bytes)
    THEN [go_on |-> FALSE, error |-> CannotReadLine("InvalidData")]
    ELSE LET parsed == parse(line_bytes, build)
         IN IF parsed.ok
            THEN [go_on |-> TRUE, records |-> Append(recs, parsed.val)]
            ELSE [go_on |-> TRUE, records |-> recs]

\* One turn of the loop of read: the first `?` returns CannotReadLine for a
\* line that is not UTF-8;  the line is decoded and pushed, or the second
\* `?` returns the error with the line's text.
read_line(recs, line_bytes, build) ==
    IF ~IsUtf8(line_bytes)
    THEN [go_on |-> FALSE, error |-> CannotReadLine("InvalidData")]
    ELSE LET parsed == parse(line_bytes, build)
         IN IF parsed.ok
            THEN [go_on |-> TRUE, records |-> Append(recs, parsed.val)]
            ELSE [go_on |-> FALSE, error |-> DailyScoreParseError(line_bytes, parsed.err)]

MaxLines == 3

GoodDateTime ==
    <<"2", "0", "2", "0", "-", "0", "2", "-", "0", "1", " ", "0", "9", ":", "1", "0", ":", "1", "1", " ", "+", "0", "2", "0", "0">>

\* The same instant's text two hours west, its offset written with U+2212.
MinusSignDateTime ==
    SubSeq(GoodDateTime, 1, 20) \o <<MINUS_SIGN, "0", "2", "0", "0">>

\* Lines a journal may hold: two written by to_s, one with a score that is no
\* number, one with no score, one with a timestamp that is none, one whose
\* offset has the minus sign U+2212, one with a byte that is not UTF-8, and
\* the empty line.
JournalLinePool ==
    {to_s(DailyScore(5, {<<"f", "o", "o">>}, Some(<<"f", "o", "o">>),
                     DT(2020, 1, 1, 9, 10, 11, 4 * HOUR_SECONDS)), <<<<"f", "o", "o">>>>,
          LATEST_BUILD),
     to_s(DailyScore(-1, {}, None, DT(2020, 2, 29, 0, 0, 0, 0)), <<>>, LATEST_BUILD),
     GoodDateTime \o SEP \o <<" ", "f", "o", "o">> \o SEP \o <<" ">> \o SEP,
     GoodDateTime,
     <<"f", "o", "o", "o">> \o SEP \o <<" ", "1">> \o SEP \o <<" ">> \o SEP,
     MinusSignDateTime \o SEP \o <<" ", "3">> \o SEP \o <<" ">> \o SEP,
     <<"f", "o", INVALID_BYTE>>,
     <<>>}

\* The file that holds the lines, the last of them ended by a newline or not.
FileOf(lines, ended) ==
    IF ended \/ lines = <<>>
    THEN File(lines, <<>>)
    ELSE File(SubSeq(lines, 1, Len(lines) - 1), lines[Len(lines)])

InitJournal ==
    /\ chrono \in READER_BUILDS
    /\ journal \in {NoFile, Directory}
                   \cup {FileOf(lines, ended) : lines \in SeqsUpTo(JournalLinePool, MaxLines),
                                                ended \in BOOLEAN}
    /\ jphase = "closed"
    /\ examined = 0
    /\ position = 0
    /\ opened_after = 0
    /\ grants = <<>>
    /\ records = <<>>
    /\ read_result = NoResult
    /\ added = <<>>
    /\ CodecIdle
    /\ ReportIdle

\* OpenOptions::new().read(true).open(file_path): it fails when nothing is
\* at the path, and may fail for what is there (a file the user may not
\* read);  it opens a directory as it opens a file.
Open ==
    /\ jphase = "closed"
    /\ \E open_fails \in BOOLEAN :
          IF ~journal.exists \/ open_fails
          THEN /\ read_result' = Err(CannotOpenFile)
               /\ jphase' = "done"
          ELSE /\ read_result' = read_result
               /\ jphase' = "reading"
    /\ opened_after' = Cardinality({i \in DOMAIN added : added[i].result # NoResult})
    /\ UNCHANGED <<journal, examined, position, grants, records, added>>
    /\ UNCHANGED codec_vars
    /\ UNCHANGED report_vars
    /\ UNCHANGED build_vars

\* One turn of `for line in reader.lines()`, on the bytes the file holds
\* when the turn is taken;  the first read of a directory fails, and the
\* first `?` returns that.
ReadLine ==
    /\ jphase = "reading"
    /\ IF journal.dir
       THEN /\ read_result' = Err(CannotReadLine("IsADirectory"))
            /\ jphase' = "done"
            /\ UNCHANGED <<examined, position, records>>
       ELSE /\ position < Len(Bytes(journal))
            /\ examined' = examined + 1
            /\ position' = next_line(journal, position).taken
            /\ LET turn == read_line(records, next_line(journal, position).bytes, chrono)
               IN IF turn.go_on
                  THEN /\ records' = turn.records
                       /\ UNCHANGED <<jphase, read_result>>
                  ELSE /\ read_result' = Err(turn.error)
                       /\ jphase' = "done"
                       /\ UNCHANGED records
    /\ UNCHANGED <<journal, opened_after, grants, added>>
    /\ UNCHANGED codec_vars
    /\ UNCHANGED report_vars
    /\ UNCHANGED build_vars

\* No byte is left when the turn is taken: Ok(records)
ReadEnd ==
    /\ jphase = "reading"
    /\ ~journal.dir
    /\ position = Len(Bytes(journal))
    /\ read_result' = Ok(records)
    /\ jphase' = "done"
    /\ UNCHANGED <<journal, examined, position, opened_after, grants, records, added>>
    /\ UNCHANGED codec_vars
    /\ UNCHANGED report_vars
    /\ UNCHANGED build_vars

NextJournal ==
    \/ Open
    \/ ReadLine
    \/ ReadEnd

SpecJournal == InitJournal /\ [][NextJournal]_vars

-----------------------------------------------------------------------------
(* Adding to the journal: AddCommand::parse and AddCommand::run, followed  *)
(* by a read.                                                              *)

\* AddCommandError
AddMissingDailyScore == [kind |-> "AddCommandError::MissingDailyScore"]
AddInvalidDailyScore == [kind |-> "AddCommandError::InvalidDailyScore"]
AddCannotOpenFile == [kind |-> "AddCommandError::CannotOpenFile"]
AddCannotWriteToFile == [kind |-> "AddCommandError::CannotWriteToFile"]

\* AddCommand::parse: the first argument is the score, the arguments after
\* it joined with spaces are the comment, the empty text when there are
\* none, and Utc::now() is the timestamp;  no argument becomes a tag.
AddCommand_parse(args, utc_now) ==
    IF args = <<>> THEN Err(AddMissingDailyScore)
    ELSE IF ~ValidScore(args[1]) THEN Err(AddInvalidDailyScore)
    ELSE Ok(DailyScore(ParseScore(args[1]), {}, Some(Join(Tail(args), <<" ">>)), utc_now))

\* The pieces of a text between its newlines, one more than the newlines.
RECURSIVE Pieces(_)
Pieces(text) ==
    LET i == Find(text, <<NEWLINE>>)
    IN IF i = 0 THEN <<text>>
       ELSE <<SubSeq(text, 1, i - 1)>> \o Pieces(SubSeq(text, i + 1, Len(text)))

\* write(2) of the bytes on a file opened with append(true): they go after
\* the last byte of the file, on its last line when no newline ends that.
write(file, bytes) ==
    LET pieces == Pieces(file.tail \o bytes)
    IN File(file.lines \o SubSeq(pieces, 1, Len(pieces) - 1), pieces[Len(pieces)])

\* How many bytes write(2) takes of a buffer: all of them, or fewer when
\* the system grants fewer to this call, and then write_all calls write(2)
\* again with the rest.
taken(buffer, granted) ==
    IF granted = <<>> \/ granted[1] >= Len(buffer) THEN Len(buffer) ELSE granted[1]

\* What the system grants the calls of write(2) that come, one after the
\* other, and every byte to the calls after them: every byte from the
\* first call on, one byte, ten, 29 (a text cut after its score) or 41 (a
\* text less its last byte) to the first call, five to the first call and
\* five to the second, and every byte to the first call (no text has 64)
\* and one to the second.
GrantPool == {<<>>, <<1>>, <<10>>, <<29>>, <<41>>, <<5, 5>>, <<64, 1>>}

MaxAdds == 2

\* Utc::now() of an add command, with the nanoseconds the clock gives
AddTime(nanos) == WithNanos(DT(2020, 3, 4, 12, 0, 0, 0), nanos)

\* The command lines of `howdy add` and the clock readings they run at
AddArgsPool ==
    {[args |-> <<<<"-", "1">>>>, nanos |-> 500000000],
     [args |-> <<<<"5">>, <<"f", "o", "o">>, <<"b", "a", "r">>>>, nanos |-> 999999999],
     [args |-> <<<<"7">>, <<"f", "o", "o", NEWLINE, "b", "a", "r">>>>, nanos |-> 1],
     [args |-> <<<<"3">>, <<"b", "a", "r">>, <<"a", " ", "b">>, <<"-", "c">>, <<"f", "o", "o">>>>,
      nanos |-> 250000000]}

\* Entries an add command may hold
AddPool == {AddCommand_parse(a.args, AddTime(a.nanos)).val : a \in AddArgsPool}

\* One run of AddCommand::run: the text it writes, the journal it found
\* when it opened it, the buffers writeln! has yet to hand to write_all (the
\* text and the newline) with the bytes of the first that are yet to be
\* written, what it returned, NoResult before it returns, and the journal it
\* left.
AddRun(daily_score, text, before, pending, result, after) ==
    [daily_score |-> daily_score, text |-> text, before |-> before,
     pending |-> pending, result |-> result, after |-> after]

\* The texts add writes carry the year 2020 and the offset +0000, which
\* every build of chrono writes and reads alike.
InitAdd ==
    /\ chrono = LATEST_BUILD
    /\ journal \in {NoFile, Directory, File(<<>>, <<>>), File(<<>>, <<"a", "b", "c">>)}
    /\ jphase = "closed"
    /\ examined = 0
    /\ position = 0
    /\ opened_after = 0
    /\ grants \in GrantPool
    /\ records = <<>>
    /\ read_result = NoResult
    /\ added = <<>>
    /\ CodecIdle
    /\ ReportIdle

\* AddCommand::run up to the `?` after open: the journal is opened for
\* appending and created when it is not there;  a directory does not open.
AddOpen ==
    /\ Len(added) < MaxAdds
    /\ \E daily_score \in AddPool, open_fails \in BOOLEAN :
          \E iter \in IterOrders(daily_score.tags) :
             LET text == to_s(daily_score, iter, chrono)
             IN IF open_fails \/ journal.dir
                THEN /\ added' = Append(added, AddRun(daily_score, text, journal, <<>>,
                                                      Err(AddCannotOpenFile), journal))
                     /\ UNCHANGED journal
                ELSE /\ journal' = IF journal.exists THEN journal ELSE File(<<>>, <<>>)
                     /\ added' = Append(added, AddRun(daily_score, text, journal,
                                                      <<text, <<NEWLINE>>>>,
                                                      NoResult, journal'))
    /\ UNCHANGED <<jphase, examined, position, opened_after, grants, records, read_result>>
    /\ UNCHANGED codec_vars
    /\ UNCHANGED report_vars
    /\ UNCHANGED build_vars

\* One write(2) of write_all in writeln!: it takes all the bytes of the
\* buffer, or as many as the system grants;  after the last byte of the
\* newline run returns Ok(()).
AddWrite ==
    /\ \E i \in DOMAIN added :
          /\ added[i].result = NoResult
          /\ LET buffer == added[i].pending[1]
                 n == taken(buffer, grants)
                 rest == SubSeq(buffer, n + 1, Len(buffer))
                 left == IF rest = <<>> THEN Tail(added[i].pending)
                         ELSE <<rest>> \o Tail(added[i].pending)
             IN /\ journal' = write(journal, SubSeq(buffer, 1, n))
                /\ added' = [added EXCEPT
                                ![i].pending = left,
                                ![i].result = IF left = <<>> THEN Ok(<<>>) ELSE NoResult,
                                ![i].after = journal']
    /\ grants' = IF grants = <<>> THEN grants ELSE Tail(grants)
    /\ UNCHANGED <<jphase, examined, position, opened_after, records, read_result>>
    /\ UNCHANGED codec_vars
    /\ UNCHANGED report_vars
    /\ UNCHANGED build_vars

\* A write(2) of write_all fails, and the `?` after writeln! returns
\* CannotWriteToFile;  what was written before stays in the file.
AddWriteFails ==
    /\ \E i \in DOMAIN added :
          /\ added[i].result = NoResult
          /\ added' = [added EXCEPT ![i].result = Err(AddCannotWriteToFile),
                                    ![i].after = journal]
    /\ UNCHANGED <<journal, jphase, examined, position, opened_after, grants, records,
                   read_result>>
    /\ UNCHANGED codec_vars
    /\ UNCHANGED report_vars
    /\ UNCHANGED build_vars

NextAdd ==
    \/ AddOpen
    \/ AddWrite
    \/ AddWriteFails
    \/ Open
    \/ ReadLine
    \/ ReadEnd

SpecAdd == InitAdd /\ [][NextAdd]_vars

-----------------------------------------------------------------------------
(* Properties of the codec.                                                *)

\* The text after the first occurrence of pat (the whole text past its end
\* when there is none).
After(s, pat) ==
    IF Find(s, pat) = 0 THEN <<>> ELSE SubSeq(s, Find(s, pat) + Len(pat), Len(s))

\* The text before the first occurrence of pat (all of it when there is none).
Upto(s, pat) == IF Find(s, pat) = 0 THEN s ELSE SubSeq(s, 1, Find(s, pat) - 1)

\* How many of the first three separators the line holds.
SepCount(l) ==
    IF Find(l, SEP) = 0 THEN 0
    ELSE IF Find(After(l, SEP), SEP) = 0 THEN 1
    ELSE IF Find(After(After(l, SEP), SEP), SEP) = 0 THEN 2
    ELSE 3

FirstField(l) == Upto(l, SEP)
ScoreField(l) == Upto(After(l, SEP), SEP)
TagsField(l) == Upto(After(After(l, SEP), SEP), SEP)
AfterThirdSep(l) == After(After(After(l, SEP), SEP), SEP)

\* The remainder without the one space that pads the separator.
Unpadded(s) == IF s # <<>> /\ s[1] = " " THEN Tail(s) ELSE s

Chars(s) == {s[i] : i \in DOMAIN s}

LineDecoded == origin = "text" /\ cphase = "decoded"

\* C1: an entry that is encoded and then decoded comes back unchanged: parse
\* succeeds and returns the same score, comment, timestamp with its offset,
\* and the same set of tags.
C1_RoundTrip ==
    (origin = "entry" /\ cphase = "decoded") =>
        (decoded.ok /\ decoded.val = entry)

\* C2: the entry decoded from an accepted line, encoded and decoded again,
\* is the entry it was: same score, timestamp, comment and tag set.
C2_ReDecodeStable ==
    (origin = "text" /\ cphase = "redecoded") =>
        (decoded2.ok /\ decoded2.val = decoded.val)

\* C3: parse splits a line on the first three separators only, and the
\* decoded comment is the remainder of the line after the third separator
\* (and the space that pads it), character for character: a comment that
\* holds the separator is returned whole.
C3_CommentVerbatim ==
    (LineDecoded /\ decoded.ok /\ SepCount(line) = 3) =>
        decoded.val.comment = Some(Unpadded(AfterThirdSep(line)))

\* C4: fields are validated left to right.  A first field that is no valid
\* timestamp yields InvalidDateTime with the trimmed first field, whatever
\* follows it; a score error is reported only for a valid timestamp.
C4_TimestampFirst ==
    LineDecoded =>
        /\ ~ValidDateTime(Trim(FirstField(line)), chrono) =>
              decoded = Err(InvalidDateTime(Trim(FirstField(line))))
        /\ (~decoded.ok /\ decoded.err.kind \in {"MissingScore", "InvalidScore"}) =>
              ValidDateTime(Trim(FirstField(line)), chrono)

\* A line with a bad timestamp and a bad score has been decoded.
C4_Witness ==
    /\ LineDecoded
    /\ SepCount(line) >= 1
    /\ Trim(ScoreField(line)) = <<"f", "o", "o">>
    /\ ~decoded.ok /\ decoded.err.kind = "InvalidDateTime"

\* The ways the pool writes the integer n.
Renderings(n) == {IntToStr(n)} \cup (IF n >= 0 THEN {<<"+">> \o IntToStr(n)} ELSE {})

\* C5: with a valid timestamp, parse returns MissingScore iff no separator
\* follows the timestamp, the score when the trimmed score field writes an
\* integer of -128..127, and InvalidScore with the trimmed score field
\* otherwise (empty, not a number, 128, -129).
C5_ScoreErrors ==
    (LineDecoded /\ ValidDateTime(Trim(FirstField(line)), chrono)) =>
        LET f == Trim(ScoreField(line))
        IN IF SepCount(line) = 0 THEN decoded = Err(MissingScore)
           ELSE IF \E n \in I8_MIN..I8_MAX : f \in Renderings(n)
                THEN decoded.ok /\ f \in Renderings(decoded.val.score)
                ELSE decoded = Err(InvalidScore(f))

\* The score text 128 has been rejected.
C5_Witness ==
    /\ LineDecoded /\ ValidDateTime(Trim(FirstField(line)), chrono)
    /\ Trim(ScoreField(line)) = <<"1", "2", "8">>
    /\ decoded = Err(InvalidScore(<<"1", "2", "8">>))

\* C6: in an accepted line, an absent or empty tags field decodes to the
\* empty set; an absent comment field decodes to None and a present one to
\* Some(text), Some("") when the line ends in the third separator.
C6_OptionalFields ==
    (LineDecoded /\ decoded.ok) =>
        /\ (SepCount(line) < 2 \/ Trim(TagsField(line)) = <<>>) => decoded.val.tags = {}
        /\ SepCount(line) < 3 => decoded.val.comment = None
        /\ SepCount(line) = 3 => decoded.val.comment.some
        /\ (SepCount(line) = 3 /\ AfterThirdSep(line) = <<>>) =>
              decoded.val.comment = Some(<<>>)

\* An accepted line with an empty tags field that ends in the third
\* separator has been decoded.
C6_Witness ==
    /\ LineDecoded /\ decoded.ok
    /\ SepCount(line) = 3
    /\ TagsField(line) = <<" ">>
    /\ AfterThirdSep(line) = <<>>

\* The tags in ascending order.
Ascending(set) ==
    CHOOSE v \in IterOrders(set) :
        \A i \in DOMAIN v : \A j \in DOMAIN v : i < j => StrLess(v[i], v[j])

\* C7: the rendered line is "<timestamp> | <score> | <tags> |<comment>" with
\* the tags in ascending order joined by ',', whatever order the tag set
\* hands them out in: it is a function of the entry's values alone.
C7_SortedTags ==
    (origin = "entry" /\ cphase = "encoded") =>
        line = FormatDateTime(entry.datetime, chrono) \o <<" ", "|", " ">>
               \o IntToStr(entry.score) \o <<" ", "|", " ">>
               \o Join(Ascending(entry.tags), <<",">>) \o <<" ", "|">>
               \o (IF entry.comment.some THEN <<" ">> \o entry.comment.val ELSE <<>>)

\* An entry with two tags has been rendered.
C7_Witness ==
    /\ origin = "entry" /\ cphase = "encoded"
    /\ Cardinality(entry.tags) = 2
    /\ Find(line, <<"b", "a", "r", ",", "f", "o", "o">>) # 0

ParseErrorKinds == {"InvalidDateTime", "MissingScore", "InvalidScore"}

\* C27: parse never returns MissingDateTime: the first piece of the split
\* always exists, so an empty or malformed timestamp field is reported as
\* InvalidDateTime carrying the trimmed field; the errors parse can return
\* are InvalidDateTime, MissingScore and InvalidScore only.
C27_NoMissingDateTime ==
    /\ (cphase \in {"decoded", "reencoded", "redecoded"} /\ ~decoded.ok) =>
           /\ decoded.err.kind \in ParseErrorKinds
           /\ decoded # Err(MissingDateTime)
    /\ (LineDecoded /\ ~ValidDateTime(Trim(FirstField(line)), chrono)) =>
           decoded = Err(InvalidDateTime(Trim(FirstField(line))))
    /\ (cphase = "redecoded" /\ ~decoded2.ok) =>
           decoded2.err.kind \in ParseErrorKinds

\* The empty line has been decoded and rejected for its timestamp.
C27_Witness ==
    /\ LineDecoded
    /\ line = <<>>
    /\ decoded = Err(InvalidDateTime(<<>>))

-----------------------------------------------------------------------------
(* Properties of the report engine.                                        *)

\* The sum of the scores at the positions idx of daily_scores.
RECURSIVE ScoreSum(_)
ScoreSum(idx) ==
    IF idx = {} THEN 0
    ELSE LET i == CHOOSE i \in idx : TRUE
         IN daily_scores[i].score + ScoreSum(idx \ {i})

\* The days the window of the aggregate that ran reaches back from today.
WindowDays == IF kind = "thirty_days_mood" THEN 29 ELSE 364

\* C8: in thirty_days_mood and yearly_mood an entry inside the date window
\* contributes its score iff every tag of the filter is among its tags; the
\* empty filter admits every entry.
C8_TagFilterAnd ==
    kind \in {"thirty_days_mood", "yearly_mood"} =>
        report = ScoreSum({i \in DOMAIN daily_scores :
                    /\ DateOf(daily_scores[i].datetime) >= DateOf(MinusDays(now, WindowDays))
                    /\ tags \subseteq daily_scores[i].tags})

\* Two entries lie in the window, one tagged {a,b} and one tagged {a}; under
\* the filter {a,b} only the first was counted.
C8_Witness ==
    /\ kind = "thirty_days_mood"
    /\ tags = {TagA, TagB}
    /\ daily_scores = <<EntryAt(now, 29, 0, 0, 2, {TagA, TagB}),
                        EntryAt(now, 29, LastSecond, 0, 4, {TagA})>>
    /\ report = 2

\* C9: every aggregate gives, for the entries E and the filter T, what it
\* gives for the entries of E whose tags contain T and no filter.
C9_FilterEverywhere ==
    kind # "none" =>
        LET passes(daily_score) == tags \subseteq daily_score.tags
        IN report = Aggregate(kind, SelectSeq(daily_scores, passes), {}, now, ticks)

\* C10: thirty_days_mood (days_back = 30) and yearly_mood (days_back = 365)
\* return the sum of the filter-passing entries dated on or after today's
\* date minus days_back - 1 days: an entry dated that day counts at any time
\* of the day, an entry dated the day before does not.
C10_WindowBoundary ==
    /\ kind = "thirty_days_mood" =>
          report = ScoreSum({i \in DOMAIN daily_scores :
                      /\ PassesTags(daily_scores[i], tags)
                      /\ DateOf(daily_scores[i].datetime) >= DateOf(now) - (30 - 1)})
    /\ kind = "yearly_mood" =>
          report = ScoreSum({i \in DOMAIN daily_scores :
                      /\ PassesTags(daily_scores[i], tags)
                      /\ DateOf(daily_scores[i].datetime) >= DateOf(now) - (365 - 1)})

\* The first instant of the day 29 days back was counted and the last
\* nanosecond of the day 30 days back was not.
C10_Witness ==
    /\ kind = "thirty_days_mood"
    /\ tags = {}
    /\ daily_scores = <<EntryAt(now, 29, 0, 0, 2, {TagA, TagB}),
                        AtNanos(EntryAt(now, 30, LastSecond, 0, -3, {TagA, TagB}),
                                LastNano)>>
    /\ report = 2

\* C11: thirty_days_mood and yearly_mood test the calendar date an entry's
\* instant has on the caller's offset, so that two entries of one instant
\* written with different offsets are counted together or not at all.
C11_CallerOffsetDate ==
    kind \in {"thirty_days_mood", "yearly_mood"} =>
        report = ScoreSum({i \in DOMAIN daily_scores :
                    /\ PassesTags(daily_scores[i], tags)
                    /\ DateOf(WithOffset(daily_scores[i].datetime, now.off))
                           >= DateOf(now) - WindowDays})

\* C12: thirty_days_mood and yearly_mood count the filter-passing entries
\* dated from today - (days_back - 1) to today and no other; an entry dated
\* after today leaves the sum as it is.
C12_WindowEndsToday ==
    kind \in {"thirty_days_mood", "yearly_mood"} =>
        report = ScoreSum({i \in DOMAIN daily_scores :
                    /\ PassesTags(daily_scores[i], tags)
                    /\ DateOf(daily_scores[i].datetime) >= DateOf(now) - WindowDays
                    /\ DateOf(daily_scores[i].datetime) <= DateOf(now)})

\* C13: thirty_days_moving_mood returns 30 pairs whatever the entries are,
\* one for each of the days from 29 days ago to today, in ascending order of
\* time with the frame that ends today last; timeframed_moving_mood_report
\* (start, end, size) returns start - end + 1 pairs.
C13_MovingLength ==
    kind = "timeframed_moving_mood_report" =>
        /\ ~panicked
        /\ Len(report) = moving.starts - moving.ends + 1
        /\ moving = THIRTY_DAYS_MOVING =>
              /\ Len(report) = 30
              /\ \A k \in 1..Len(report) :
                    /\ report[k][1] >= now.ts - (30 - k) * DAY_SECONDS
                    /\ report[k][1] < now.ts - (30 - k) * DAY_SECONDS + DAY_SECONDS
              /\ \A k \in 1..(Len(report) - 1) : report[k][1] < report[k + 1][1]

\* C14: in the moving report the sum of the frame that ends d days ago is
\* the sum of the filter-passing entries dated from today - d - frame_size
\* to today - d, both days included, and of no other entry.
C14_FrameSum ==
    kind = "thirty_days_moving_mood" =>
        \A k \in 1..Len(report) :
            LET d == 30 - k
            IN report[k][2] =
                 ScoreSum({i \in DOMAIN daily_scores :
                     /\ PassesTags(daily_scores[i], tags)
                     /\ DateOf(daily_scores[i].datetime) >= DateOf(now) - d - 29
                     /\ DateOf(daily_scores[i].datetime) <= DateOf(now) - d})

\* An entry dated today and one dated 29 days ago: the frame that ends 29
\* days ago holds the second alone, the frame that ends today holds both.
C14_Witness ==
    /\ kind = "thirty_days_moving_mood"
    /\ tags = {}
    /\ daily_scores = <<EntryAt(now, 0, 12 * HOUR_SECONDS, 0, 1, {}),
                        EntryAt(now, 29, 0, 0, 2, {TagA, TagB})>>
    /\ report[1][2] = 2
    /\ report[2][2] = 2
    /\ report[30][2] = 3

\* C18: thirty_days_moving_mood takes every bucket timestamp and every frame
\* from one sample of the clock: neighbouring bucket timestamps are 86400
\* seconds apart and the output is what a clock standing still gives.
C18_SingleClockSample ==
    kind = "thirty_days_moving_mood" =>
        /\ \A k \in 1..(Len(report) - 1) :
              report[k + 1][1] - report[k][1] = DAY_SECONDS
        /\ report = thirty_days_moving_mood(daily_scores, tags, now, SteadyClock)

\* The aggregates that report in periods of constant length.
ConstPeriodKinds ==
    {"iterative_weekly_mood", "iterative_seven_days_mood", "iterative_thirty_days_mood"}

\* The instant the report of the aggregate that ran ends at.
ReportEnd ==
    IF kind = "iterative_weekly_mood"
    THEN Midnight(DateOf(now) - NumDaysFromMonday(DateOf(now)), now.off).ts
    ELSE Midnight(DateOf(now) + 1, now.off).ts

\* The length of its periods in seconds.
PeriodSeconds ==
    IF kind = "iterative_thirty_days_mood" THEN 30 * DAY_SECONDS ELSE 7 * DAY_SECONDS

\* The positions of the entries a report in periods includes.
Included ==
    {i \in DOMAIN daily_scores :
        /\ PassesTags(daily_scores[i], tags)
        /\ daily_scores[i].datetime.ts < ReportEnd}

\* The whole periods between an included entry and the report's end.
PeriodsBack(i) == (ReportEnd - daily_scores[i].datetime.ts - 1) \div PeriodSeconds

\* The sum the report gives for the period b periods back from the last.
BucketSum(b) == report[Len(report) - b][2]

\* C15: a report in constant periods has one bucket for every period from
\* the one of the oldest included entry to the one that ends at the report's
\* end: its length is 1 + the largest bucket index of an included entry, a
\* period without entries is there with the sum 0, and the output is empty
\* exactly when no entry passes the filter and precedes the report's end.
C15_GapFilling ==
    kind \in ConstPeriodKinds =>
        /\ (report = <<>>) <=> (Included = {})
        /\ Included # {} =>
              \E oldest \in Included :
                  /\ \A i \in Included : PeriodsBack(i) <= PeriodsBack(oldest)
                  /\ Len(report) = 1 + PeriodsBack(oldest)
        /\ \A b \in 0..(Len(report) - 1) :
              BucketSum(b) = ScoreSum({i \in Included : PeriodsBack(i) = b})

\* Entries 1, 2 and 15 days before the last Monday gave three weeks: the
\* oldest entry's, an empty one, and the one of the two recent entries.
C15_Witness ==
    LET w == NumDaysFromMonday(DateOf(now))
    IN /\ kind = "iterative_weekly_mood"
       /\ tags = {}
       /\ daily_scores = <<EntryAt(now, w + 1, 0, 0, 2, {}),
                           EntryAt(now, w + 2, 0, 0, 3, {TagA}),
                           EntryAt(now, w + 15, 0, 0, 4, {TagA})>>
       /\ Len(report) = 3
       /\ report[1][2] = 4
       /\ report[2][2] = 0
       /\ report[3][2] = 5

\* The positions of the included entries that lie k whole periods before
\* the report's end, k >= 1.
OnBoundary(k) ==
    {i \in Included : ReportEnd - daily_scores[i].datetime.ts = k * PeriodSeconds}

\* The positions of the included entries from lo on and before hi.
Between(lo, hi) ==
    {i \in Included : lo <= daily_scores[i].datetime.ts /\ daily_scores[i].datetime.ts < hi}

\* The most periods an entry of the inputs lies before a report's end.
MaxBack == 60

\* C20: in a report in constant periods an entry exactly k periods before
\* the report's end, k >= 1, is counted in the earlier of the two periods
\* that meet there, the one that ends at that instant.
C20_BoundaryEarlier ==
    kind \in ConstPeriodKinds =>
        \A k \in 1..MaxBack :
            OnBoundary(k) # {} =>
                /\ Len(report) > k
                /\ BucketSum(k) =
                      ScoreSum(Between(ReportEnd - (k + 1) * PeriodSeconds + 1,
                                       ReportEnd - k * PeriodSeconds + 1))

\* C20 as the code has it: such an entry is counted in the later of the two
\* periods, the one that begins at that instant; a period runs from its
\* first second up to, and without, the first second of the next.
C20_BoundaryLater ==
    kind \in ConstPeriodKinds =>
        \A k \in 1..MaxBack :
            OnBoundary(k) # {} =>
                /\ Len(report) >= k
                /\ BucketSum(k - 1) =
                      ScoreSum(Between(ReportEnd - k * PeriodSeconds,
                                       ReportEnd - (k - 1) * PeriodSeconds))

\* An entry on the Monday a week before the last one and an entry the day
\* before the last Monday fell into one week, the last of the report.
C20_Witness ==
    LET w == NumDaysFromMonday(DateOf(now))
    IN /\ kind = "iterative_weekly_mood"
       /\ tags = {}
       /\ daily_scores = <<EntryAt(now, w + 7, 0, 0, 8, {}),
                           EntryAt(now, w + 1, 0, 0, 2, {})>>
       /\ OnBoundary(1) = {1}
       /\ Len(report) = 1
       /\ report[1][2] = 10

\* The first instant of the current month on the caller's clock.
CurrentMonthStart == Midnight(DateOf(now) - (CivilFromDays(DateOf(now)).d - 1), now.off).ts

\* The first instant, on the caller's clock, of the month after the one the
\* entry at position i is dated in.
FollowingMonthStart(i) ==
    LET c == CivilFromDays(DateOf(daily_scores[i].datetime))
        first == DateOf(daily_scores[i].datetime) - (c.d - 1)
    IN Midnight(first + DaysInMonth(c.y, c.m), now.off).ts

\* C16: iterative_monthly_mood leaves the current month out: entries at or
\* after its start are in no bucket, the sum of a calendar month stands
\* under the first instant of the month after it, and the last bucket of a
\* non-empty output stands under the start of the current month with the
\* sum of the month before.
C16_OpenMonthLeftOut ==
    kind = "iterative_monthly_mood" =>
        LET closed == {i \in DOMAIN daily_scores :
                          daily_scores[i].datetime.ts < CurrentMonthStart}
        IN /\ \A k \in 1..Len(report) :
                 report[k][2] = ScoreSum({i \in closed : FollowingMonthStart(i) = report[k][1]})
           /\ report # <<>> => report[Len(report)][1] = CurrentMonthStart

\* C17: every aggregate is total: whatever the entries and the filter are,
\* the report that ran returned a value, with no panic, no index out of
\* bounds, and no addition that left the range of i32, whether the build
\* checks overflow or not.
C17_Total ==
    kind # "none" =>
        /\ ~panicked
        /\ ~Panics(kind, daily_scores, tags, now, TRUE)
        /\ kind \in {"thirty_days_mood", "yearly_mood"} =>
              report >= I32_MIN /\ report <= I32_MAX
        /\ kind \notin {"thirty_days_mood", "yearly_mood"} =>
              \A k \in 1..Len(report) :
                  /\ Len(report[k]) = 2
                  /\ report[k][2] >= I32_MIN /\ report[k][2] <= I32_MAX

\* C21: in a report in constant periods the bucket k places before the last
\* carries the timestamp report_end - k * period_seconds, the end of its
\* period, whether it was filled with 0 or touched by entries, an entry on a
\* period boundary among them.
C21_BucketTimestamps ==
    kind \in ConstPeriodKinds =>
        \A k \in 0..(Len(report) - 1) :
            report[Len(report) - k][1] = ReportEnd - k * PeriodSeconds

\* C22: a report in constant periods is in chronological order, the
\* timestamps of its pairs strictly increasing, so that no two buckets share
\* a timestamp.
C22_StrictlyIncreasing ==
    kind \in ConstPeriodKinds =>
        \A k \in 1..(Len(report) - 1) : report[k][1] < report[k + 1][1]

\* The entries of daily_scores before the instant a, in their order.
EntriesBefore(a) ==
    LET before(daily_score) == daily_score.datetime.ts < a
    IN SelectSeq(daily_scores, before)

\* The positions of the filter-passing entries from lo on and before hi.
PassingBetween(lo, hi) ==
    {i \in DOMAIN daily_scores :
        /\ PassesTags(daily_scores[i], tags)
        /\ lo <= daily_scores[i].datetime.ts
        /\ daily_scores[i].datetime.ts < hi}

\* The midnights, on the caller's clock, of today and the six days before.
WeekOfMidnights == {Midnight(DateOf(now) - d, now.off).ts : d \in 0..6}

\* C23: iterative_weekly_mood ends its periods at the last Monday 00:00:00
\* on the caller's clock, today's midnight when today is a Monday: the last
\* bucket holds the seven days that end there, and an entry at or after
\* that instant is in no bucket.
C23_WeeklyAnchor ==
    kind = "iterative_weekly_mood" =>
        \E a \in WeekOfMidnights :
            /\ NumDaysFromMonday((a + now.off) \div DAY_SECONDS) = 0
            /\ a <= now.ts
            /\ report = iterative_weekly_mood(EntriesBefore(a), tags, now)
            /\ PassingBetween(a - 7 * DAY_SECONDS, a) # {} => report # <<>>
            /\ report # <<>> =>
                  report[Len(report)][2] = ScoreSum(PassingBetween(a - 7 * DAY_SECONDS, a))

\* On a Monday at 00:00:00 an entry of that very instant and an entry of the
\* day before: the one bucket holds the second entry alone.
C23_Witness ==
    /\ kind = "iterative_weekly_mood"
    /\ NumDaysFromMonday(DateOf(now)) = 0
    /\ tags = {}
    /\ daily_scores = <<EntryAt(now, 0, 0, 0, 16, {TagA}), EntryAt(now, 1, 0, 0, 2, {})>>
    /\ daily_scores[1].datetime.ts = now.ts
    /\ Len(report) = 1
    /\ report[1][2] = 2

\* C24: iterative_seven_days_mood and iterative_thirty_days_mood end their
\* periods at 00:00:00 of the day after today: an entry of any time today is
\* in the last bucket, an entry at or after that midnight is in no bucket,
\* and an entry less than N days before it is in no older bucket.
C24_NextDayAnchor ==
    kind \in {"iterative_seven_days_mood", "iterative_thirty_days_mood"} =>
        LET a == (DateOf(now) + 1) * DAY_SECONDS - now.off
            n == IF kind = "iterative_seven_days_mood" THEN 7 ELSE 30
            today == {i \in DOMAIN daily_scores :
                         /\ PassesTags(daily_scores[i], tags)
                         /\ (daily_scores[i].datetime.ts + now.off) \div DAY_SECONDS
                               = DateOf(now)}
        IN /\ report = Aggregate(kind, EntriesBefore(a), tags, now, ticks)
           /\ today \subseteq PassingBetween(a - n * DAY_SECONDS, a)
           /\ PassingBetween(a - n * DAY_SECONDS, a) # {} => report # <<>>
           /\ report # <<>> =>
                 report[Len(report)][2] = ScoreSum(PassingBetween(a - n * DAY_SECONDS, a))
           /\ \A k \in 1..(Len(report) - 1) :
                 report[k][2] =
                     ScoreSum(PassingBetween(a - (Len(report) - k + 1) * n * DAY_SECONDS,
                                             a - (Len(report) - k) * n * DAY_SECONDS))

\* An entry of today noon and an entry nine days back: the report in
\* periods of seven days has two buckets, today's entry in the last.
C24_Witness ==
    /\ kind = "iterative_seven_days_mood"
    /\ tags = {}
    /\ daily_scores = <<AtNanos(EntryAt(now, 0, 12 * HOUR_SECONDS, 0, -10, {}),
                                500000000),
                        EntryAt(now, 9, 12 * HOUR_SECONDS, HOUR_SECONDS, -3, {})>>
    /\ Len(report) = 2
    /\ report[1][2] = -3
    /\ report[2][2] = -10

\* The number of the calendar month a day number lies in.
MonthIndex(day) == LET c == CivilFromDays(day) IN c.y * 12 + (c.m - 1)

\* The first instant of the month of that number on the caller's clock.
MonthStart(idx) == Midnight(DaysFromCivil(idx \div 12, (idx % 12) + 1, 1), now.off).ts

\* The positions of the entries before the start of the current month.
Closed == {i \in DOMAIN daily_scores : daily_scores[i].datetime.ts < CurrentMonthStart}

\* C25: iterative_monthly_mood returns one bucket for every calendar month
\* from the month of the oldest included entry to the previous month, in
\* ascending order and each under a first-of-month midnight; a month of
\* that range without entries has the sum 0, and the output is empty when
\* no entry precedes the start of the current month.
C25_OneBucketPerMonth ==
    kind = "iterative_monthly_mood" =>
        LET current == MonthIndex(DateOf(now))
        IN /\ Closed = {} => report = <<>>
           /\ Closed # {} =>
                 \E oldest \in Closed :
                     /\ \A i \in Closed : daily_scores[oldest].datetime.ts
                                              <= daily_scores[i].datetime.ts
                     /\ Len(report) =
                           current - MonthIndex(DateOf(daily_scores[oldest].datetime))
           /\ \A k \in 1..Len(report) :
                 /\ report[k][1] = MonthStart(current - (Len(report) - k))
                 /\ (\A i \in Closed : FollowingMonthStart(i) # report[k][1])
                       => report[k][2] = 0

\* C29: the sums of all buckets of iterative_monthly_mood add up to the sum
\* of the scores of the entries before the start of the current month,
\* whatever offsets the entries are written with; none is dropped.
C29_MonthlyConservation ==
    kind = "iterative_monthly_mood" =>
        SumScores([k \in 1..Len(report) |-> [score |-> report[k][2]]]) = ScoreSum(Closed)

\* The sum of the sums of the pairs of a report.
RECURSIVE TotalOf(_)
TotalOf(pairs) == IF pairs = <<>> THEN 0 ELSE Head(pairs)[2] + TotalOf(Tail(pairs))

\* C28: in a report in constant periods the sums of all buckets add up to
\* the sum of the scores of the entries that pass the filter and lie before
\* the report's end: each of them is counted once and no other entry is.
C28_PeriodConservation ==
    kind \in ConstPeriodKinds => TotalOf(report) = ScoreSum(Included)

\* Under the filter {a}, of an entry without the tag, an entry with it two
\* days before the last Monday and an entry with it at that Monday's
\* midnight, the second alone was counted.
C28_Witness ==
    LET w == NumDaysFromMonday(DateOf(now))
    IN /\ kind = "iterative_weekly_mood"
       /\ tags = {TagA}
       /\ daily_scores = <<EntryAt(now, w + 1, 0, 0, 2, {}),
                           EntryAt(now, w + 2, 0, 0, 3, {TagA}),
                           EntryAt(now, w, 0, 0, 16, {TagA})>>
       /\ Included = {2}
       /\ TotalOf(report) = 3

\* The sequences the entries of daily_scores can be arranged in.
Arrangements ==
    {[k \in DOMAIN daily_scores |-> daily_scores[order[k]]] :
        order \in IterOrders(DOMAIN daily_scores)}

\* C30: with now fixed the output of every aggregate, the timestamps of the
\* buckets as well as the sums, is the same for every order of the entries.
C30_OrderIndependent ==
    kind # "none" =>
        \A scores \in Arrangements : report = Aggregate(kind, scores, tags, now, ticks)

-----------------------------------------------------------------------------
(* Properties of reading the journal.                                      *)

\* What becomes of each line of the journal when it is read on its own:
\* whether it is UTF-8, and what parse returns for it when it is.
Decoding ==
    [n \in DOMAIN Lines(journal) |->
        IF IsUtf8(Lines(journal)[n])
        THEN [utf8 |-> TRUE, parsed |-> parse(Lines(journal)[n], chrono)]
        ELSE [utf8 |-> FALSE]]

\* The numbers of the lines that are not UTF-8, and of those that are and
\* that parse does not accept.
Unreadable(decoding) == {n \in DOMAIN decoding : ~decoding[n].utf8}
BadLines(decoding) == {n \in DOMAIN decoding : decoding[n].utf8 /\ ~decoding[n].parsed.ok}

\* C19: a read that has opened the journal stops at the first line that
\* does not decode and returns DailyScoreParseError with that line's text
\* and its ParseError, without any entry of the lines before it and without
\* taking a line after it;  when every line decodes it returns one entry
\* per line in file order.  The lines are the UTF-8 lines of the persisted
\* format:  nothing is said of a read that meets a line that is not UTF-8
\* before it meets a line that does not decode.
C19_AbortOnFirstBadLine ==
    LET Holds(decoding, stops) ==
            IF stops = {}
            THEN /\ read_result = Ok([n \in DOMAIN decoding |-> decoding[n].parsed.val])
                 /\ examined = Len(decoding)
            ELSE \E first \in stops :
                    /\ \A n \in stops : first <= n
                    /\ decoding[first].utf8 =>
                          /\ read_result =
                                Err(DailyScoreParseError(Lines(journal)[first],
                                                         decoding[first].parsed.err))
                          /\ DOMAIN read_result = {"ok", "err"}
                          /\ examined = first
    IN (jphase = "done" /\ ~journal.dir /\ read_result # Err(CannotOpenFile)) =>
           Holds(Decoding, Unreadable(Decoding) \cup BadLines(Decoding))

\* A line that decodes, a line without a score and another line that
\* decodes: the read returned the error of the second line after taking two
\* lines.
C19_Witness ==
    /\ jphase = "done"
    /\ Len(Lines(journal)) = 3
    /\ BadLines(Decoding) = {2}
    /\ Unreadable(Decoding) = {}
    /\ Lines(journal)[2] = GoodDateTime
    /\ read_result = Err(DailyScoreParseError(GoodDateTime, MissingScore))
    /\ examined = 2

-----------------------------------------------------------------------------
(* Properties of adding to the journal.                                    *)

\* Whether a run of add has returned Ok(()).
Succeeded(run) == run.result # NoResult /\ run.result.ok

\* C26: the journal is append-only under add: each successful add run has
\* appended exactly one line that a newline ends, the to_s rendering of its
\* entry, after the lines that were there, which stay as they were; and a
\* read that opens the journal after n successful adds to an empty journal
\* yields n entries in the order of the runs with the scores that were
\* given.
C26_AppendOnly ==
    /\ \A i \in DOMAIN added :
          Succeeded(added[i]) =>
              /\ added[i].after.tail = <<>>
              /\ Lines(added[i].after) = Lines(added[i].before) \o <<added[i].text>>
    /\ (/\ jphase = "done"
        /\ read_result # Err(CannotOpenFile)
        /\ opened_after = Len(added)
        /\ added # <<>>
        /\ Lines(added[1].before) = <<>>
        /\ \A i \in DOMAIN added : Succeeded(added[i])) =>
          /\ read_result.ok
          /\ Len(read_result.val) = Len(added)
          /\ \A i \in DOMAIN added :
                read_result.val[i].score = added[i].daily_score.score

====
